---- MODULE Spec2Model ----
(***************************************************************************)
(* Verification model of the quipslop broadcast pipeline:                  *)
(*   - the broadcast page (state-sync client, renderer, render loop),      *)
(*   - the stream orchestrator (relay, encoder supervision, shutdown).     *)
(***************************************************************************)
EXTENDS Integers, Sequences, FiniteSets, TLC

\* ------------------------------------------------------------------------
\* Bounds of the model
\* ------------------------------------------------------------------------
MaxSockets == 2
MaxClock == 1

\* ------------------------------------------------------------------------
\* Values
\* ------------------------------------------------------------------------
\* JavaScript null / undefined / NaN for a numeric slot.
NoNumber == -1
\* A missing (or otherwise falsy) version field of a state message.
NoVersion == "none"
Versions == {"v1", "v2"}
\* No socket / no timer handle (the variable holds null).
NoId == 0

ReconnectDelayMs == 1000

NullRound == [tag |-> "null"]
MkRound(n, ph, p) == [tag |-> "round", num |-> n, phase |-> ph, prompt |-> p]

\* state === null (before the first state message) and data === undefined
NullState == [tag |-> "null"]
UndefinedData == [tag |-> "undefined"]
\* an object that is not a GameState (e.g. {}): it has no scores
BadShapeData == [tag |-> "badshape"]
MkGame(gen, act, last, dn, sc) ==
    [tag |-> "game", generation |-> gen, active |-> act,
     lastCompleted |-> last, done |-> dn, scores |-> sc]

GameA == MkGame(1, MkRound(1, "answering", "p1"), NullRound, FALSE,
                <<>>)
GameB == MkGame(1, MkRound(2, "prompting", ""), MkRound(1, "done", "p1"), FALSE,
                <<<<"A", 1>>, <<"B", 0>>>>)
GameC == MkGame(2, NullRound, MkRound(2, "done", "p2"), TRUE,
                <<<<"A", 1>>, <<"B", 2>>>>)
WellFormedData == {GameA, GameB, GameC}
MessageData == WellFormedData \cup {UndefinedData, BadShapeData}

\* Inbound payloads (e.data), by what JSON.parse and the handler make of them.
StateMessages ==
    [kind : {"state"}, data : MessageData, totalRounds : {5, -2},
     viewerCount : {1, NoNumber}, version : Versions \cup {NoVersion}]
ViewerCountMessages ==
    [kind : {"viewerCount"}, viewerCount : {2, NoNumber}]
OtherMessages ==
    [kind : {"unparseable", "jsonnull", "untyped"}]
Messages == StateMessages \cup ViewerCountMessages \cup OtherMessages

\* A payload is malformed when it does not parse or has the wrong shape.
IsMalformed(m) ==
    \/ m.kind \in {"unparseable", "jsonnull", "untyped"}
    \/ m.kind = "state" /\ m.data \notin WellFormedData
    \/ m.kind = "viewerCount" /\ m.viewerCount = NoNumber

VARIABLES
    \* --- broadcast page: module state of the state-sync client ---
    state, totalRounds, viewerCount, connected, ws, reconnectTimer,
    lastMessageAt, knownVersion,
    \* --- broadcast page: host environment ---
    sockets,        \* socket id -> "none" | "connecting" | "open" | "closed"
    timers,         \* pending timeouts: records [id, delay]
    nextTimerId,
    now,            \* Date.now()
    page,           \* "live" | "reloading" (location.reload() was called)
    rafPending,     \* a requestAnimationFrame(renderLoop) callback is pending
    frame,          \* what the canvas shows
    \* --- broadcast page: history variables ---
    reloads, firstSeenVersion, mismatchSeen,
    lastApplied,        \* data and totalRounds of the last applied state message
    appliedAtDraw,      \* lastApplied at the time of the last draw
    malformedApplied,   \* a malformed payload changed state, totalRounds,
                        \* viewerCount or lastMessageAt
    viewerMsgTouched,   \* a viewerCount message changed state, totalRounds,
                        \* lastMessageAt or knownVersion
    handlerThrew        \* an exception left ws.onmessage

pageVars == <<state, totalRounds, viewerCount, connected, ws, reconnectTimer,
              lastMessageAt, knownVersion, sockets, timers, nextTimerId, now,
              page, rafPending, frame, reloads, firstSeenVersion, mismatchSeen,
              lastApplied, appliedAtDraw, malformedApplied,
              viewerMsgTouched, handlerThrew>>

VARIABLES
    \* --- orchestrator: command line and environment ---
    argMode,            \* process.argv[2]: "live" | "dryrun" | "other"
    streamKeySet,       \* TWITCH_STREAM_KEY is set
    \* --- orchestrator: the process and main() ---
    proc,               \* "running" | "exited"
    exitStatus,         \* exit status of the process once it has exited
    mainPc,             \* where main() stands
    exitCode,           \* const exitCode = await ffmpeg.exited
    \* --- orchestrator: subprocesses, relay, browser ---
    ffmpeg,             \* "none" | "running" | "exited"
    ffmpegStdin,        \* "none" | "open" | "ended"
    ffmpegSignalled,    \* ffmpeg.kill() was delivered
    ffmpegCode,         \* the code ffmpeg exited with
    ffplay,             \* the same for the preview subprocess
    ffplayStdin,
    ffplaySignalled,
    ffplayPump,         \* "none" | "running" | "done"
    chunkServer,        \* "none" | "listening" | "stopped"
    browser,            \* "none" | "open" | "closed"
    chunksWritten,      \* chunks written to ffmpeg.stdin
    \* --- orchestrator: readiness gate ---
    firstChunk,         \* the promise: "none" | "pending" | "resolved" | "rejected"
    firstChunkResolve,  \* the callback is non-null
    firstChunkReject,
    firstChunkTimer,    \* "unset" | "armed" | "fired" | "cleared"
    firstChunkError,    \* the Error firstChunk was rejected with
    \* --- orchestrator: shutdown ---
    shuttingDown,
    handlersInstalled,  \* process.on("SIGINT"/"SIGTERM") were registered
    sdCalls,            \* one entry per call of shutdown(): its position
    sdLog,              \* teardown steps attempted, in order
    sdRaised,           \* a call of shutdown() rejected
    mainCall,           \* index in sdCalls of the call main() awaits, or 0
    signals,            \* termination signals delivered so far
    exitCause           \* history: why the process exited

argVars == <<argMode, streamKeySet>>
encVars == <<ffmpeg, ffmpegStdin, ffmpegSignalled, ffmpegCode>>
playVars == <<ffplay, ffplayStdin, ffplaySignalled, ffplayPump>>
gateVars == <<firstChunk, firstChunkResolve, firstChunkReject, firstChunkTimer,
              firstChunkError>>
sdVars == <<shuttingDown, sdCalls, sdLog, sdRaised, mainCall>>
procVars == <<proc, exitStatus, exitCause>>

orchVars == <<argVars, procVars, mainPc, exitCode, encVars, playVars,
              chunkServer, browser, chunksWritten, gateVars, sdVars,
              handlersInstalled, signals>>

\* the capture sink of the broadcast page (startCanvasCaptureSink)
VARIABLES
    sinkSocket,       \* the sink WebSocket: "none" without a sink parameter,
                      \* else readyState "connecting", "open", "closing", "closed"
    recorder,         \* "null", or the MediaRecorder's state
    finalPending,     \* recorder.stop() has queued its last dataavailable
    bufferedAmount,   \* socket.bufferedAmount
    captured          \* one record per dataavailable event, in order

sinkVars == <<sinkSocket, recorder, finalPending, bufferedAmount, captured>>

\* a pure function of the page under test: its argument and its result
VARIABLES viewIn, viewOut

viewVars == <<viewIn, viewOut>>

\* no pure function is under test
NoValue == [tag |-> "none"]

ViewIdle ==
    /\ viewIn = NoValue
    /\ viewOut = NoValue

vars == <<pageVars, orchVars, sinkVars, viewVars>>

SocketIds == 1..MaxSockets

LiveSockets == {s \in SocketIds : sockets[s] \in {"connecting", "open"}}

\* ------------------------------------------------------------------------
\* Renderer: draw()
\* ------------------------------------------------------------------------
\* a leader taken without sorting: the first entry of scores
Leader_FirstEntry(entries, i) ==
    IF i > Len(entries) THEN <<>> ELSE entries[i]

RECURSIVE Leader(_, _)
\* Object.entries(scores).sort((a, b) => b[1] - a[1])[0] with a stable sort:
\* the first entry, in insertion order, among those with the highest score.
Leader(entries, i) ==
    IF i > Len(entries) THEN <<>>
    ELSE LET rest == Leader(entries, i + 1)
         IN  IF rest = <<>> \/ entries[i][2] >= rest[2] THEN entries[i] ELSE rest

\* a choice of round that always prefers the active one
DisplayRound_ActiveFirst(st) ==
    IF st.active.tag = "round" THEN st.active ELSE st.lastCompleted

\* draw(), lines 637-638: isNextPrompting and displayRound
DisplayRound(st) ==
    LET isNextPrompting ==
            /\ st.active.tag = "round"
            /\ st.active.phase = "prompting"
            /\ st.active.prompt = ""
    IN  IF isNextPrompting /\ st.lastCompleted.tag = "round"
        THEN st.lastCompleted
        ELSE IF st.active.tag = "round" THEN st.active ELSE st.lastCompleted

\* a draw() that calls drawRound without testing displayRound: with no round
\* to show drawRound reads a field of null and raises
Draw_RoundUnchecked(st, tr) ==
    IF st.tag \in {"null", "undefined"}
    THEN [threw |-> FALSE, view |-> "waiting"]
    ELSE IF st.tag # "game" THEN [threw |-> TRUE, view |-> "header"]
    ELSE IF st.done
    THEN IF Leader(st.scores, 1) = <<>>
         THEN [threw |-> FALSE, view |-> "empty", scores |-> st.scores]
         ELSE [threw |-> FALSE, view |-> "done", scores |-> st.scores,
               leader |-> Leader(st.scores, 1)]
    ELSE IF DisplayRound(st).tag = "round"
    THEN [threw |-> FALSE, view |-> "round", scores |-> st.scores,
          round |-> DisplayRound(st), totalRounds |-> tr]
    ELSE [threw |-> TRUE, view |-> "header", scores |-> st.scores]

\* a draw() that tests displayRound before state.done
Draw_RoundBeforeDone(st, tr) ==
    IF st.tag \in {"null", "undefined"}
    THEN [threw |-> FALSE, view |-> "waiting"]
    ELSE IF st.tag # "game" THEN [threw |-> TRUE, view |-> "header"]
    ELSE IF DisplayRound(st).tag = "round"
    THEN [threw |-> FALSE, view |-> "round", scores |-> st.scores,
          round |-> DisplayRound(st), totalRounds |-> tr]
    ELSE IF st.done
    THEN IF Leader(st.scores, 1) = <<>>
         THEN [threw |-> FALSE, view |-> "empty", scores |-> st.scores]
         ELSE [threw |-> FALSE, view |-> "done", scores |-> st.scores,
               leader |-> Leader(st.scores, 1)]
    ELSE [threw |-> FALSE, view |-> "waiting", scores |-> st.scores]

\* The frame draw() leaves on the canvas; threw = TRUE when draw() raises
\* before returning (Object.entries(undefined) in drawScoreboard).  With
\* done set and no score entry drawDone returns at line 607 and the main
\* area stays empty.
Draw(st, tr) ==
    IF st.tag \in {"null", "undefined"}
    THEN [threw |-> FALSE, view |-> "waiting"]
    ELSE IF st.tag # "game" THEN [threw |-> TRUE, view |-> "header"]
    ELSE IF st.done
    THEN IF Leader(st.scores, 1) = <<>>
         THEN [threw |-> FALSE, view |-> "empty", scores |-> st.scores]
         ELSE [threw |-> FALSE, view |-> "done", scores |-> st.scores,
               leader |-> Leader(st.scores, 1)]
    ELSE IF DisplayRound(st).tag = "round"
    THEN [threw |-> FALSE, view |-> "round", scores |-> st.scores,
          round |-> DisplayRound(st), totalRounds |-> tr]
    ELSE [threw |-> FALSE, view |-> "waiting", scores |-> st.scores]

\* ------------------------------------------------------------------------
\* Initial state: the page script has run to its end
\*   setupWebSocket(); startCanvasCaptureSink(); renderLoop();
\* ------------------------------------------------------------------------
NothingApplied == [data |-> NullState, totalRounds |-> NoNumber]

PageInit ==
    /\ state = NullState
    /\ totalRounds = NoNumber
    /\ viewerCount = 0
    /\ connected = FALSE
    /\ ws = 1
    /\ reconnectTimer = NoId
    /\ lastMessageAt = 0
    /\ knownVersion = NoVersion
    /\ sockets = [s \in SocketIds |-> IF s = 1 THEN "connecting" ELSE "none"]
    /\ timers = {}
    /\ nextTimerId = 1
    /\ page = "live"
    /\ rafPending = TRUE
    /\ frame = Draw(NullState, NoNumber)
    /\ reloads = 0
    /\ firstSeenVersion = NoVersion
    /\ mismatchSeen = FALSE
    /\ lastApplied = NothingApplied
    /\ appliedAtDraw = NothingApplied
    /\ malformedApplied = FALSE
    /\ viewerMsgTouched = FALSE
    /\ handlerThrew = FALSE

\* ------------------------------------------------------------------------
\* State-sync client
\* ------------------------------------------------------------------------
\* setupWebSocket(): ws = new WebSocket(wsUrl)
SetupWebSocket ==
    LET id == ws + 1
    IN  /\ id <= MaxSockets
        /\ ws' = id
        /\ sockets' = [sockets EXCEPT ![id] = "connecting"]

\* ws.onopen
OnOpen(s) ==
    /\ page = "live"
    /\ sockets[s] = "connecting"
    /\ sockets' = [sockets EXCEPT ![s] = "open"]
    /\ connected' = TRUE
    /\ UNCHANGED <<state, totalRounds, viewerCount, ws, reconnectTimer,
                   lastMessageAt, knownVersion, timers, nextTimerId, now, page,
                   rafPending, frame, reloads, firstSeenVersion, mismatchSeen,
                   lastApplied, appliedAtDraw, malformedApplied,
                   viewerMsgTouched, handlerThrew,
                   orchVars, sinkVars, viewVars>>

\* ws.onclose with the new timer handle not stored in reconnectTimer
OnClose_HandleNotStored(s) ==
    /\ page = "live"
    /\ sockets[s] \in {"connecting", "open"}
    /\ sockets' = [sockets EXCEPT ![s] = "closed"]
    /\ connected' = FALSE
    /\ timers' = {t \in timers : t.id # reconnectTimer}
                    \cup {[id |-> nextTimerId, delay |-> ReconnectDelayMs]}
    /\ nextTimerId' = nextTimerId + 1
    /\ UNCHANGED <<state, totalRounds, viewerCount, ws, lastMessageAt,
                   knownVersion, now, page, rafPending, frame, reloads,
                   firstSeenVersion, mismatchSeen, lastApplied, appliedAtDraw,
                   malformedApplied,
                   viewerMsgTouched, handlerThrew, reconnectTimer,
                   orchVars, sinkVars, viewVars>>

\* ws.onclose that also forgets the snapshot
OnClose_DropsSnapshot(s) ==
    /\ page = "live"
    /\ sockets[s] \in {"connecting", "open"}
    /\ sockets' = [sockets EXCEPT ![s] = "closed"]
    /\ connected' = FALSE
    /\ timers' = {t \in timers : t.id # reconnectTimer}
                    \cup {[id |-> nextTimerId, delay |-> ReconnectDelayMs]}
    /\ reconnectTimer' = nextTimerId
    /\ nextTimerId' = nextTimerId + 1
    /\ state' = NullState
    /\ UNCHANGED <<totalRounds, viewerCount, ws, lastMessageAt,
                   knownVersion, now, page, rafPending, frame, reloads,
                   firstSeenVersion, mismatchSeen, lastApplied, appliedAtDraw,
                   malformedApplied,
                   viewerMsgTouched, handlerThrew,
                   orchVars, sinkVars, viewVars>>

\* ws.onclose that gives up after a connection attempt that never opened
OnClose_NoRetryAfterFailure(s) ==
    /\ page = "live"
    /\ sockets[s] \in {"connecting", "open"}
    /\ sockets' = [sockets EXCEPT ![s] = "closed"]
    /\ connected' = FALSE
    /\ IF sockets[s] = "open"
       THEN /\ timers' = {t \in timers : t.id # reconnectTimer}
                    \cup {[id |-> nextTimerId, delay |-> ReconnectDelayMs]}
            /\ reconnectTimer' = nextTimerId
            /\ nextTimerId' = nextTimerId + 1
       ELSE UNCHANGED <<timers, reconnectTimer, nextTimerId>>
    /\ UNCHANGED <<state, totalRounds, viewerCount, ws, lastMessageAt,
                   knownVersion, now, page, rafPending, frame, reloads,
                   firstSeenVersion, mismatchSeen, lastApplied, appliedAtDraw,
                   malformedApplied,
                   viewerMsgTouched, handlerThrew,
                   orchVars, sinkVars, viewVars>>

\* ws.onclose that schedules the reconnect and leaves the connected flag
OnClose_StaysConnected(s) ==
    /\ page = "live"
    /\ sockets[s] \in {"connecting", "open"}
    /\ sockets' = [sockets EXCEPT ![s] = "closed"]
    /\ timers' = {t \in timers : t.id # reconnectTimer}
                    \cup {[id |-> nextTimerId, delay |-> ReconnectDelayMs]}
    /\ reconnectTimer' = nextTimerId
    /\ nextTimerId' = nextTimerId + 1
    /\ UNCHANGED <<state, totalRounds, viewerCount, ws, lastMessageAt,
                   knownVersion, now, page, rafPending, frame, reloads,
                   firstSeenVersion, mismatchSeen, lastApplied, appliedAtDraw,
                   malformedApplied, connected,
                   viewerMsgTouched, handlerThrew,
                   orchVars, sinkVars, viewVars>>

\* ws.onclose: fired once per socket, after a failed connect or a lost link
OnClose(s) ==
    /\ page = "live"
    /\ sockets[s] \in {"connecting", "open"}
    /\ sockets' = [sockets EXCEPT ![s] = "closed"]
    /\ connected' = FALSE
    /\ timers' = {t \in timers : t.id # reconnectTimer}
                    \cup {[id |-> nextTimerId, delay |-> ReconnectDelayMs]}
    /\ reconnectTimer' = nextTimerId
    /\ nextTimerId' = nextTimerId + 1
    /\ UNCHANGED <<state, totalRounds, viewerCount, ws, lastMessageAt,
                   knownVersion, now, page, rafPending, frame, reloads,
                   firstSeenVersion, mismatchSeen, lastApplied, appliedAtDraw,
                   malformedApplied,
                   viewerMsgTouched, handlerThrew,
                   orchVars, sinkVars, viewVars>>

\* the reconnect timeout fires and calls setupWebSocket
ReconnectFire(t) ==
    /\ page = "live"
    /\ t \in timers
    /\ timers' = timers \ {t}
    /\ SetupWebSocket
    /\ UNCHANGED <<state, totalRounds, viewerCount, connected, reconnectTimer,
                   lastMessageAt, knownVersion, nextTimerId, now, page,
                   rafPending, frame, reloads, firstSeenVersion, mismatchSeen,
                   lastApplied, appliedAtDraw, malformedApplied,
                   viewerMsgTouched, handlerThrew,
                   orchVars, sinkVars, viewVars>>

\* ws.onmessage, lines 141-145: the version recorded after the message
NextKnownVersion(kv, m) ==
    IF m.version # NoVersion /\ kv = NoVersion THEN m.version ELSE kv

\* the reload test without the guard "if (msg.version)"
ReloadsPage_NoPresenceGuard(kv, m) ==
    kv # NoVersion /\ kv # m.version

\* ws.onmessage, line 144: return location.reload()
ReloadsPage(kv, m) ==
    m.version # NoVersion /\ kv # NoVersion /\ kv # m.version

\* a merge of the new snapshot into the old one instead of a replacement
ApplyState_Merge(old, m) ==
    IF old.tag = "game" /\ m.data.tag = "game"
          /\ m.data.lastCompleted = NullRound
    THEN [m.data EXCEPT !.lastCompleted = old.lastCompleted]
    ELSE m.data

\* ws.onmessage, line 146: state = msg.data
ApplyState(old, m) == m.data

\* the timestamp refreshed by every message kind
LastMessageAtAfter_AnyKind(old, m, clock) == clock

\* ws.onmessage, line 152: lastMessageAt = Date.now(), in the state branch
LastMessageAtAfter(old, m, clock) ==
    IF m.kind = "state" THEN clock ELSE old

\* ws.onmessage, lines 147-150
ParseTotalRounds(x) == IF x # NoNumber /\ x >= 0 THEN x ELSE NoNumber

\* ws.onmessage, lines 139, 156-158: try { ... } catch { }
HandlerCatches(m) == TRUE

\* JSON.parse(...) or the read of msg.type raises
HandlerRaises(m) == m.kind \in {"unparseable", "jsonnull"}

\* ws.onmessage
OnMessage(s, m) ==
    /\ page = "live"
    /\ sockets[s] = "open"
    /\ handlerThrew' = (handlerThrew \/ (HandlerRaises(m) /\ ~HandlerCatches(m)))
    /\ firstSeenVersion' =
          IF m.kind = "state" /\ firstSeenVersion = NoVersion
          THEN m.version ELSE firstSeenVersion
    /\ mismatchSeen' =
          \/ mismatchSeen
          \/ /\ m.kind = "state"
             /\ m.version # NoVersion
             /\ firstSeenVersion # NoVersion
             /\ m.version # firstSeenVersion
    /\ IF m.kind = "state"
       THEN /\ knownVersion' = NextKnownVersion(knownVersion, m)
            /\ IF ReloadsPage(knownVersion, m)
               THEN /\ page' = "reloading"
                    /\ reloads' = reloads + 1
                    /\ UNCHANGED <<state, totalRounds, viewerCount,
                                   lastMessageAt, lastApplied>>
               ELSE /\ state' = ApplyState(state, m)
                    /\ totalRounds' = ParseTotalRounds(m.totalRounds)
                    /\ viewerCount' = m.viewerCount
                    /\ lastMessageAt' = LastMessageAtAfter(lastMessageAt, m, now)
                    /\ lastApplied' =
                          [data |-> m.data,
                           totalRounds |-> ParseTotalRounds(m.totalRounds)]
                    /\ UNCHANGED <<page, reloads>>
       ELSE /\ viewerCount' = IF m.kind = "viewerCount"
                              THEN m.viewerCount ELSE viewerCount
            /\ lastMessageAt' =
                  IF HandlerRaises(m) THEN lastMessageAt
                  ELSE LastMessageAtAfter(lastMessageAt, m, now)
            /\ UNCHANGED <<state, totalRounds, knownVersion,
                           page, reloads, lastApplied>>
    /\ malformedApplied' =
          \/ malformedApplied
          \/ /\ IsMalformed(m)
             /\ <<state, totalRounds, viewerCount, lastMessageAt>>'
                   # <<state, totalRounds, viewerCount, lastMessageAt>>
    /\ viewerMsgTouched' =
          \/ viewerMsgTouched
          \/ /\ m.kind = "viewerCount"
             /\ <<state, totalRounds, lastMessageAt, knownVersion>>'
                   # <<state, totalRounds, lastMessageAt, knownVersion>>
    /\ UNCHANGED <<connected, ws, reconnectTimer, sockets, timers, nextTimerId,
                   now, rafPending, frame, appliedAtDraw,
                   orchVars, sinkVars, viewVars>>

\* the page is replaced by a fresh load of itself after location.reload()
PageLoad ==
    /\ page = "reloading"
    /\ state' = NullState
    /\ totalRounds' = NoNumber
    /\ viewerCount' = 0
    /\ connected' = FALSE
    /\ ws' = 1
    /\ reconnectTimer' = NoId
    /\ lastMessageAt' = 0
    /\ knownVersion' = NoVersion
    /\ sockets' = [s \in SocketIds |-> IF s = 1 THEN "connecting" ELSE "none"]
    /\ timers' = {}
    /\ nextTimerId' = 1
    /\ page' = "live"
    /\ rafPending' = TRUE
    /\ frame' = Draw(NullState, NoNumber)
    /\ reloads' = 0
    /\ firstSeenVersion' = NoVersion
    /\ mismatchSeen' = FALSE
    /\ lastApplied' = NothingApplied
    /\ appliedAtDraw' = NothingApplied
    /\ malformedApplied' = FALSE
    /\ viewerMsgTouched' = FALSE
    /\ handlerThrew' = FALSE
    /\ UNCHANGED <<now, orchVars, sinkVars, viewVars>>

\* ------------------------------------------------------------------------
\* Render loop
\* ------------------------------------------------------------------------
\* renderLoop(): draw(); window.requestAnimationFrame(renderLoop);
RenderLoop ==
    /\ page = "live"
    /\ rafPending
    /\ frame' = Draw(state, totalRounds)
    /\ rafPending' = ~Draw(state, totalRounds).threw
    /\ appliedAtDraw' = lastApplied
    /\ UNCHANGED <<state, totalRounds, viewerCount, connected, ws,
                   reconnectTimer, lastMessageAt, knownVersion, sockets, timers,
                   nextTimerId, now, page, reloads, firstSeenVersion,
                   mismatchSeen, lastApplied, malformedApplied,
                   viewerMsgTouched, handlerThrew,
                   orchVars, sinkVars, viewVars>>

\* the wall clock advances
Tick ==
    /\ now < MaxClock
    /\ now' = now + 1
    /\ UNCHANGED <<state, totalRounds, viewerCount, connected, ws,
                   reconnectTimer, lastMessageAt, knownVersion, sockets, timers,
                   nextTimerId, page, rafPending, frame, reloads,
                   firstSeenVersion, mismatchSeen, lastApplied, appliedAtDraw,
                   malformedApplied,
                   viewerMsgTouched, handlerThrew,
                   orchVars, sinkVars, viewVars>>

\* ------------------------------------------------------------------------
\* Stream orchestrator
\* ------------------------------------------------------------------------
MaxSignals == 2
MaxChunks == 2
MaxRecorded == 4     \* dataavailable events of the capture sink
MaxVotes == 3        \* votes of a round
MaxTextLen == 5      \* characters of a text given to textLines
MaxLineWidth == 4    \* maxWidth given to textLines, in width units
MaxLines == 3        \* maxLines given to textLines
MaxFrames == 4       \* frames drawn while the logo cache is followed
MaxArchived == 4     \* rounds saved to the archive
MaxLimit == 3        \* page size given to getRounds
MaxConnections == 2  \* capture connections made to the chunk server
MaxRelayed == 4      \* chunks relayed to the encoder
MaxHistoryPages == 4 \* pages of the round archive
MaxFetches == 6      \* page fetches of one history view

ExitCodes == {0, 1, 143}
NoCode == -1

\* process.exit(code), or the death of the process
Exit(code, cause) ==
    /\ proc' = "exited"
    /\ exitStatus' = code
    /\ exitCause' = cause

OrchInit ==
    /\ argMode \in {"live", "dryrun", "other"}
    /\ streamKeySet \in BOOLEAN
    /\ proc = "running"
    /\ exitStatus = NoCode
    /\ exitCause = "none"
    /\ mainPc = "resolveMode"
    /\ exitCode = NoCode
    /\ ffmpeg = "none"
    /\ ffmpegStdin = "none"
    /\ ffmpegSignalled = FALSE
    /\ ffmpegCode = NoCode
    /\ ffplay = "none"
    /\ ffplayStdin = "none"
    /\ ffplaySignalled = FALSE
    /\ ffplayPump = "none"
    /\ chunkServer = "none"
    /\ browser = "none"
    /\ chunksWritten = 0
    /\ firstChunk = "none"
    /\ firstChunkResolve = FALSE
    /\ firstChunkReject = FALSE
    /\ firstChunkTimer = "unset"
    /\ firstChunkError = "none"
    /\ shuttingDown = FALSE
    /\ handlersInstalled = FALSE
    /\ sdCalls = <<>>
    /\ sdLog = <<>>
    /\ sdRaised = FALSE
    /\ mainCall = 0
    /\ signals = 0

\* a start-up that omits the stream-key test of lines 43-46
ResolveMode_NoKeyTest ==
    /\ proc = "running"
    /\ mainPc = "resolveMode"
    /\ IF argMode = "other"
       THEN Exit(1, "usage") /\ UNCHANGED mainPc
       ELSE mainPc' = "awaitReachable" /\ UNCHANGED procVars
    /\ UNCHANGED <<argVars, exitCode, encVars, playVars, chunkServer, browser,
                   chunksWritten, gateVars, sdVars, handlersInstalled, signals,
                   pageVars, sinkVars, viewVars>>

\* module top level: resolveMode(process.argv[2]), the stream-key test,
\* then main() runs up to await assertBroadcastReachable(...)
ResolveMode ==
    /\ proc = "running"
    /\ mainPc = "resolveMode"
    /\ IF argMode = "other"
       THEN Exit(1, "usage") /\ UNCHANGED mainPc
       ELSE IF argMode = "live" /\ ~streamKeySet
       THEN Exit(1, "nokey") /\ UNCHANGED mainPc
       ELSE mainPc' = "awaitReachable" /\ UNCHANGED procVars
    /\ UNCHANGED <<argVars, exitCode, encVars, playVars, chunkServer, browser,
                   chunksWritten, gateVars, sdVars, handlersInstalled, signals,
                   pageVars, sinkVars, viewVars>>

\* assertBroadcastReachable settles; on success main() spawns ffmpeg (and
\* ffplay with its pump in dryrun mode), creates the firstChunk promise and
\* the relay server, and calls puppeteer.launch
Reachable(ok) ==
    /\ proc = "running"
    /\ mainPc = "awaitReachable"
    /\ IF ok
       THEN /\ mainPc' = "awaitLaunch"
            /\ ffmpeg' = "running"
            /\ ffmpegStdin' = "open"
            /\ IF argMode = "dryrun"
               THEN /\ ffplay' = "running"
                    /\ ffplayStdin' = "open"
                    /\ ffplayPump' = "running"
               ELSE UNCHANGED <<ffplay, ffplayStdin, ffplayPump>>
            /\ firstChunk' = "pending"
            /\ firstChunkResolve' = TRUE
            /\ firstChunkReject' = TRUE
            /\ chunkServer' = "listening"
            /\ UNCHANGED procVars
       ELSE /\ Exit(1, "unreachable")
            /\ UNCHANGED <<mainPc, ffmpeg, ffmpegStdin, ffplay, ffplayStdin,
                           ffplayPump, firstChunk, firstChunkResolve,
                           firstChunkReject, chunkServer>>
    /\ UNCHANGED <<argVars, exitCode, ffmpegSignalled, ffmpegCode,
                   ffplaySignalled, browser, chunksWritten, firstChunkTimer,
                   firstChunkError, sdVars, handlersInstalled, signals,
                   pageVars, sinkVars, viewVars>>

\* await puppeteer.launch(...) settles
Launched(ok) ==
    /\ proc = "running"
    /\ mainPc = "awaitLaunch"
    /\ IF ok
       THEN /\ browser' = "open"
            /\ mainPc' = "awaitPage"
            /\ UNCHANGED procVars
       ELSE /\ Exit(1, "launch")
            /\ UNCHANGED <<browser, mainPc>>
    /\ UNCHANGED <<argVars, exitCode, encVars, playVars, chunkServer,
                   chunksWritten, gateVars, sdVars, handlersInstalled, signals,
                   pageVars, sinkVars, viewVars>>

\* newPage, setViewport, goto and waitForSelector settle; on success main()
\* arms firstChunkTimer and awaits firstChunk
PageReady(ok) ==
    /\ proc = "running"
    /\ mainPc = "awaitPage"
    /\ IF ok
       THEN /\ firstChunkTimer' = "armed"
            /\ mainPc' = "awaitFirstChunk"
            /\ UNCHANGED procVars
       ELSE /\ Exit(1, "page")
            /\ UNCHANGED <<firstChunkTimer, mainPc>>
    /\ UNCHANGED <<argVars, exitCode, encVars, playVars, chunkServer, browser,
                   chunksWritten, firstChunk, firstChunkResolve,
                   firstChunkReject, firstChunkError, sdVars,
                   handlersInstalled, signals, pageVars, sinkVars, viewVars>>

\* chunkServer websocket.message with a binary message; the write to
\* ffmpeg.stdin can raise only once that pipe is closed
ChunkMessage(writeOk) ==
    /\ proc = "running"
    /\ chunkServer = "listening"
    /\ browser = "open"
    /\ chunksWritten < MaxChunks
    /\ writeOk \/ ffmpeg = "exited" \/ ffmpegStdin = "ended"
    /\ IF writeOk
       THEN /\ chunksWritten' = chunksWritten + 1
            /\ firstChunk' = IF firstChunkResolve /\ firstChunk = "pending"
                             THEN "resolved" ELSE firstChunk
            /\ firstChunkResolve' = FALSE
            /\ firstChunkReject' = FALSE
            /\ UNCHANGED firstChunkError
       ELSE /\ firstChunk' = IF firstChunkReject /\ firstChunk = "pending"
                             THEN "rejected" ELSE firstChunk
            /\ firstChunkError' = IF firstChunkReject /\ firstChunk = "pending"
                                  THEN "write" ELSE firstChunkError
            /\ UNCHANGED <<chunksWritten, firstChunkResolve, firstChunkReject>>
    /\ UNCHANGED <<argVars, procVars, mainPc, exitCode, encVars, playVars,
                   chunkServer, browser, firstChunkTimer, sdVars,
                   handlersInstalled, signals, pageVars, sinkVars, viewVars>>

\* the 10 s firstChunkTimer fires
FirstChunkTimeout ==
    /\ proc = "running"
    /\ firstChunkTimer = "armed"
    /\ firstChunkTimer' = "fired"
    /\ firstChunk' = IF firstChunkReject /\ firstChunk = "pending"
                     THEN "rejected" ELSE firstChunk
    /\ firstChunkError' = IF firstChunkReject /\ firstChunk = "pending"
                          THEN "timeout" ELSE firstChunkError
    /\ UNCHANGED <<argVars, procVars, mainPc, exitCode, encVars, playVars,
                   chunkServer, browser, chunksWritten, firstChunkResolve,
                   firstChunkReject, sdVars, handlersInstalled, signals,
                   pageVars, sinkVars, viewVars>>

\* await firstChunk.finally(() => clearTimeout(firstChunkTimer)) settles:
\* resolved, main() defines shutdown and registers the signal handlers;
\* rejected, main() rejects and main().catch calls process.exit(1)
FirstChunkSettled ==
    /\ proc = "running"
    /\ mainPc = "awaitFirstChunk"
    /\ firstChunk \in {"resolved", "rejected"}
    /\ firstChunkTimer' = IF firstChunkTimer = "armed" THEN "cleared"
                          ELSE firstChunkTimer
    /\ IF firstChunk = "resolved"
       THEN /\ handlersInstalled' = TRUE
            /\ mainPc' = "awaitFfmpegExit"
            /\ UNCHANGED procVars
       ELSE /\ Exit(1, firstChunkError)
            /\ UNCHANGED <<handlersInstalled, mainPc>>
    /\ UNCHANGED <<argVars, exitCode, encVars, playVars, chunkServer, browser,
                   chunksWritten, firstChunk, firstChunkResolve,
                   firstChunkReject, firstChunkError, sdVars, signals,
                   pageVars, sinkVars, viewVars>>

\* ------------------------------------------------------------------------
\* Orchestrator: shutdown
\* ------------------------------------------------------------------------
\* the teardown steps of shutdown(), in source order; the two ffplay steps
\* are inside "if (ffplay)"
StepsBeforeAwait == <<"stopServer", "closeBrowser">>

\* steps after await browser.close() with kill issued before stdin.end()
StepsAfterAwait_KillFirst(hasFfplay) ==
    <<"killFfmpeg", "endFfmpegStdin">>
        \o (IF hasFfplay THEN <<"killFfplay", "endFfplayStdin">> ELSE <<>>)

\* shutdown(), lines 275-290
StepsAfterAwait(hasFfplay) ==
    <<"endFfmpegStdin", "killFfmpeg">>
        \o (IF hasFfplay THEN <<"endFfplayStdin", "killFfplay">> ELSE <<>>)

\* the flag test dropped: every call runs the teardown
ReturnsEarly_Never(flag) == FALSE

\* shutdown(), line 267: if (shuttingDown) return;
ReturnsEarly(flag) == flag

RECURSIVE UpToFirstThrow(_, _)
UpToFirstThrow(steps, throws) ==
    IF steps = <<>> THEN <<>>
    ELSE IF Head(steps) \in throws THEN <<Head(steps)>>
    ELSE <<Head(steps)>> \o UpToFirstThrow(Tail(steps), throws)

\* one try block around all the steps: the first throw ends the teardown
Attempted_OneTry(steps, throws) == UpToFirstThrow(steps, throws)

\* shutdown(), lines 269-290: every step sits in a try { } catch {} of its
\* own, so the steps attempted do not depend on which of them throw
Attempted(steps, throws) == steps

\* whether the call rejects: a throw that no catch block stops
Raises(steps, throws) == Attempted(steps, throws) # steps

LogEntries(call, steps, throws) ==
    [i \in 1..Len(steps) |->
        [step |-> steps[i], call |-> call, threw |-> steps[i] \in throws]]

Succeeded(steps, throws, step) ==
    \E i \in 1..Len(steps) : steps[i] = step /\ step \notin throws

\* a call of shutdown() up to its first suspension: either the early return,
\* or the flag, chunkServer.stop(true) and the call of browser.close()
ShutdownCall(throws) ==
    IF ReturnsEarly(shuttingDown)
    THEN /\ sdCalls' = Append(sdCalls, "returned")
         /\ UNCHANGED <<shuttingDown, sdLog, sdRaised, chunkServer>>
    ELSE LET call == Len(sdCalls) + 1
             steps == Attempted(StepsBeforeAwait, throws)
         IN  /\ shuttingDown' = TRUE
             /\ sdLog' = sdLog \o LogEntries(call, steps, throws)
             /\ chunkServer' = IF Succeeded(steps, throws, "stopServer")
                               THEN "stopped" ELSE chunkServer
             /\ sdCalls' = Append(sdCalls,
                              IF "closeBrowser" \in {steps[i] : i \in 1..Len(steps)}
                              THEN "awaitBrowserClose" ELSE "raised")
             /\ sdRaised' = (sdRaised \/ Raises(StepsBeforeAwait, throws))

\* SIGINT or SIGTERM is delivered: the registered handler calls shutdown();
\* before the handlers are registered the signal ends the process
Signal(sig, throws) ==
    /\ proc = "running"
    /\ signals < MaxSignals
    /\ signals' = signals + 1
    /\ throws \subseteq {"stopServer"}
    /\ IF handlersInstalled
       THEN /\ ShutdownCall(throws)
            /\ UNCHANGED procVars
       ELSE /\ Exit(128 + sig, "signal")
            /\ UNCHANGED <<shuttingDown, sdCalls, sdLog, sdRaised, chunkServer>>
    /\ UNCHANGED <<argVars, mainPc, exitCode, encVars, playVars, browser,
                   chunksWritten, gateVars, mainCall, handlersInstalled,
                   pageVars, sinkVars, viewVars>>

\* browser.close() settles and the call of shutdown() runs to its end
ShutdownResume(call, closed, throws) ==
    /\ proc = "running"
    /\ call \in 1..Len(sdCalls)
    /\ sdCalls[call] = "awaitBrowserClose"
    /\ throws \subseteq {"endFfmpegStdin", "killFfmpeg", "endFfplayStdin",
                         "killFfplay"}
    /\ LET planned == StepsAfterAwait(ffplay # "none")
           steps == Attempted(planned, throws)
       IN  /\ throws \subseteq {planned[i] : i \in 1..Len(planned)}
           /\ sdLog' = sdLog \o LogEntries(call, steps, throws)
           /\ sdCalls' = [sdCalls EXCEPT ![call] =
                             IF Raises(planned, throws) THEN "raised" ELSE "done"]
           /\ sdRaised' = (sdRaised \/ Raises(planned, throws))
           /\ ffmpegStdin' = IF Succeeded(steps, throws, "endFfmpegStdin")
                             THEN "ended" ELSE ffmpegStdin
           /\ ffmpegSignalled' =
                 (ffmpegSignalled \/ (Succeeded(steps, throws, "killFfmpeg")
                                        /\ ffmpeg = "running"))
           /\ ffplayStdin' = IF Succeeded(steps, throws, "endFfplayStdin")
                             THEN "ended" ELSE ffplayStdin
           /\ ffplaySignalled' =
                 (ffplaySignalled \/ (Succeeded(steps, throws, "killFfplay")
                                        /\ ffplay = "running"))
    /\ browser' = IF closed THEN "closed" ELSE browser
    /\ UNCHANGED <<argVars, procVars, mainPc, exitCode, ffmpeg, ffmpegCode,
                   ffplay, ffplayPump, chunkServer, chunksWritten, gateVars,
                   shuttingDown, mainCall, handlersInstalled, signals,
                   pageVars, sinkVars, viewVars>>

\* ------------------------------------------------------------------------
\* Orchestrator: subprocess events and the tail of main()
\* ------------------------------------------------------------------------
\* the encoder exits, on its own or after ffmpeg.kill()
FfmpegExit(code) ==
    /\ proc = "running"
    /\ ffmpeg = "running"
    /\ ffmpeg' = "exited"
    /\ ffmpegCode' = code
    /\ UNCHANGED <<argVars, procVars, mainPc, exitCode, ffmpegStdin,
                   ffmpegSignalled, playVars, chunkServer, browser,
                   chunksWritten, gateVars, sdVars, handlersInstalled, signals,
                   pageVars, sinkVars, viewVars>>

\* pipeReadableToSink: ffmpeg's stdout reports done after the encoder has
\* exited; the finally block ends ffplay's stdin
PumpDone ==
    /\ proc = "running"
    /\ ffplayPump = "running"
    /\ ffmpeg = "exited"
    /\ ffplayPump' = "done"
    /\ ffplayStdin' = "ended"
    /\ UNCHANGED <<argVars, procVars, mainPc, exitCode, encVars, ffplay,
                   ffplaySignalled, chunkServer, browser, chunksWritten,
                   gateVars, sdVars, handlersInstalled, signals,
                   pageVars, sinkVars, viewVars>>

\* the preview process exits: its window is closed, or after ffplay.kill()
FfplayExit ==
    /\ proc = "running"
    /\ ffplay = "running"
    /\ ffplay' = "exited"
    /\ UNCHANGED <<argVars, procVars, mainPc, exitCode, encVars, ffplayStdin,
                   ffplaySignalled, ffplayPump, chunkServer, browser,
                   chunksWritten, gateVars, sdVars, handlersInstalled, signals,
                   pageVars, sinkVars, viewVars>>

\* main(), line 309: await shutdown()
MainCallsShutdown(throws) ==
    /\ throws \subseteq {"stopServer"}
    /\ ShutdownCall(throws)
    /\ mainCall' = Len(sdCalls) + 1
    /\ mainPc' = "awaitShutdown"

\* main(), line 300: const exitCode = await ffmpeg.exited
MainAfterFfmpegExit(throws) ==
    /\ proc = "running"
    /\ mainPc = "awaitFfmpegExit"
    /\ ffmpeg = "exited"
    /\ exitCode' = ffmpegCode
    /\ IF ffplayPump # "none"
       THEN /\ mainPc' = "awaitPump"
            /\ throws = {}
            /\ UNCHANGED <<sdVars, chunkServer>>
       ELSE MainCallsShutdown(throws)
    /\ UNCHANGED <<argVars, procVars, encVars, playVars, browser,
                   chunksWritten, gateVars, handlersInstalled, signals,
                   pageVars, sinkVars, viewVars>>

\* main(), lines 301-305: await ffplayPump.catch(...)
MainAfterPump ==
    /\ proc = "running"
    /\ mainPc = "awaitPump"
    /\ ffplayPump = "done"
    /\ mainPc' = "awaitFfplayExit"
    /\ UNCHANGED <<argVars, procVars, exitCode, encVars, playVars, chunkServer,
                   browser, chunksWritten, gateVars, sdVars, handlersInstalled,
                   signals, pageVars, sinkVars, viewVars>>

\* main(), lines 306-309: await ffplay.exited; await shutdown()
MainAfterFfplayExit(throws) ==
    /\ proc = "running"
    /\ mainPc = "awaitFfplayExit"
    /\ ffplay = "exited"
    /\ MainCallsShutdown(throws)
    /\ UNCHANGED <<argVars, procVars, exitCode, encVars, playVars, browser,
                   chunksWritten, gateVars, handlersInstalled, signals,
                   pageVars, sinkVars, viewVars>>

\* an exit status that only tells failure from success
EncoderExitStatus_Flattened(code) == IF code # 0 THEN 1 ELSE 0

\* main(), lines 311-313: process.exit(exitCode), the encoder's own code
EncoderExitStatus(code) == code

\* main(), lines 309-313: the awaited call of shutdown() has settled;
\* a rejection of it reaches main().catch
MainAfterShutdown ==
    /\ proc = "running"
    /\ mainPc = "awaitShutdown"
    /\ sdCalls[mainCall] \in {"returned", "done", "raised"}
    /\ IF sdCalls[mainCall] = "raised"
       THEN Exit(1, "shutdown") /\ UNCHANGED mainPc
       ELSE IF exitCode # 0
       THEN Exit(EncoderExitStatus(exitCode), "encoder") /\ UNCHANGED mainPc
       ELSE mainPc' = "returned" /\ UNCHANGED procVars
    /\ UNCHANGED <<argVars, exitCode, encVars, playVars, chunkServer, browser,
                   chunksWritten, gateVars, sdVars, handlersInstalled, signals,
                   pageVars, sinkVars, viewVars>>

\* main() has returned and no call of shutdown() is still suspended: nothing
\* keeps the event loop alive and the process ends with status 0
ProcessEnds ==
    /\ proc = "running"
    /\ mainPc = "returned"
    /\ \A c \in 1..Len(sdCalls) : sdCalls[c] # "awaitBrowserClose"
    /\ Exit(0, "returned")
    /\ UNCHANGED <<argVars, mainPc, exitCode, encVars, playVars, chunkServer,
                   browser, chunksWritten, gateVars, sdVars, handlersInstalled,
                   signals, pageVars, sinkVars, viewVars>>

OrchNext ==
    \/ ResolveMode
    \/ \E ok \in BOOLEAN : Reachable(ok)
    \/ \E ok \in BOOLEAN : Launched(ok)
    \/ \E ok \in BOOLEAN : PageReady(ok)
    \/ \E ok \in BOOLEAN : ChunkMessage(ok)
    \/ FirstChunkTimeout
    \/ FirstChunkSettled
    \/ \E sig \in {2, 15}, t \in SUBSET {"stopServer"} : Signal(sig, t)
    \/ \E c \in 1..(MaxSignals + 1), closed \in BOOLEAN,
          t \in SUBSET {"endFfmpegStdin", "killFfmpeg", "endFfplayStdin",
                        "killFfplay"} : ShutdownResume(c, closed, t)
    \/ \E code \in ExitCodes : FfmpegExit(code)
    \/ PumpDone
    \/ FfplayExit
    \/ \E t \in SUBSET {"stopServer"} : MainAfterFfmpegExit(t)
    \/ MainAfterPump
    \/ \E t \in SUBSET {"stopServer"} : MainAfterFfplayExit(t)
    \/ MainAfterShutdown
    \/ ProcessEnds

\* ------------------------------------------------------------------------
\* Capture sink: startCanvasCaptureSink
\* ------------------------------------------------------------------------
\* line 689: the backpressure ceiling on socket.bufferedAmount, in bytes
BufferCeiling == 16000000

\* sizes of a recorded chunk: empty, or large enough that one queued chunk
\* brings bufferedAmount to the ceiling and a second one beyond it
ChunkSizes == {0, BufferCeiling}

\* the page without a sink parameter: no sink socket, no recorder
SinkIdle ==
    /\ sinkSocket = "none"
    /\ recorder = "null"
    /\ finalPending = FALSE
    /\ bufferedAmount = 0
    /\ captured = <<>>

\* lines 655-670: with a sink parameter the socket is created once
SinkInit ==
    /\ sinkSocket \in {"none", "connecting"}
    /\ recorder = "null"
    /\ finalPending = FALSE
    /\ bufferedAmount = 0
    /\ captured = <<>>

\* tests that let a chunk through although bufferedAmount is at the ceiling
\* or beyond it
PassesTests_NoBackpressure(size, readyState, buffered) ==
    /\ ~(size = 0)
    /\ ~(readyState # "open")

\* lines 687-689: the three early returns of ondataavailable
PassesTests(size, readyState, buffered) ==
    /\ ~(size = 0)
    /\ ~(readyState # "open")
    /\ ~(buffered > BufferCeiling)

\* socket.onopen, lines 680-697: the recorder is created and started
SinkOpen ==
    /\ sinkSocket = "connecting"
    /\ sinkSocket' = "open"
    /\ recorder' = "recording"
    /\ UNCHANGED <<finalPending, bufferedAmount, captured, pageVars, orchVars,
                   viewVars>>

\* the closing handshake starts: readyState is CLOSING until the close event
SinkClosing ==
    /\ sinkSocket = "open"
    /\ sinkSocket' = "closing"
    /\ UNCHANGED <<recorder, finalPending, bufferedAmount, captured, pageVars,
                   orchVars, viewVars>>

\* socket.onclose, lines 700-703: recorder?.stop(); a recorder that was
\* recording becomes inactive and delivers what it holds in one last event
SinkClose ==
    /\ sinkSocket \in {"connecting", "open", "closing"}
    /\ sinkSocket' = "closed"
    /\ recorder' = IF recorder = "recording" THEN "inactive" ELSE recorder
    /\ finalPending' = (recorder = "recording")
    /\ UNCHANGED <<bufferedAmount, captured, pageVars, orchVars, viewVars>>

\* recorder.ondataavailable up to its await, lines 686-690: a chunk that
\* fails a test is dropped, one that passes waits for event.data.arrayBuffer()
DataAvailable(size) ==
    /\ recorder = "recording" \/ finalPending
    /\ Len(captured) < MaxRecorded
    /\ captured' = Append(captured,
                          [size |-> size,
                           readyState |-> sinkSocket,
                           buffered |-> bufferedAmount,
                           outcome |-> IF PassesTests(size, sinkSocket,
                                                      bufferedAmount)
                                       THEN "converting" ELSE "dropped",
                           sentTo |-> "none"])
    /\ finalPending' = FALSE
    /\ UNCHANGED <<sinkSocket, recorder, bufferedAmount, pageVars, orchVars,
                   viewVars>>

\* recorder.ondataavailable after its await, line 691: socket.send(chunk),
\* whatever the socket's state has become; send() on a socket that is no
\* longer open does not throw, it discards the data and still adds its
\* length to bufferedAmount
ConversionDone(i) ==
    /\ i \in 1..Len(captured)
    /\ captured[i].outcome = "converting"
    /\ captured' = [captured EXCEPT ![i].outcome = "sent",
                                    ![i].sentTo = sinkSocket]
    /\ bufferedAmount' = bufferedAmount + captured[i].size
    /\ UNCHANGED <<sinkSocket, recorder, finalPending, pageVars, orchVars,
                   viewVars>>

\* the network takes the queued bytes
Drain ==
    /\ sinkSocket = "open"
    /\ bufferedAmount > 0
    /\ bufferedAmount' = 0
    /\ UNCHANGED <<sinkSocket, recorder, finalPending, captured, pageVars,
                   orchVars, viewVars>>

SinkNext ==
    \/ SinkOpen
    \/ SinkClosing
    \/ SinkClose
    \/ \E size \in ChunkSizes : DataAvailable(size)
    \/ \E i \in 1..MaxRecorded : ConversionDone(i)
    \/ Drain

\* ------------------------------------------------------------------------
\* Contestant cards: vote tally and winner badge
\* ------------------------------------------------------------------------
\* model names; a Model is compared by its name only
ContestantNames == {"A", "B"}
VoterChoices == {"A", "B", "C"}

\* VoteInfo, lines 9-15: votedFor is a name or "none" when the field is
\* absent; error is the optional flag
Votes == [votedFor : VoterChoices \cup {"none"}, error : BOOLEAN]

VoteLists == UNION {[1..n -> Votes] : n \in 0..MaxVotes}

\* RoundState, lines 16-29, as far as a card reads it; answerTasks[i].model
\* is contestants[i]
CardRounds ==
    [tag : {"cardRound"},
     phase : {"prompting", "answering", "voting", "done"},
     contestants : ContestantNames \X ContestantNames,
     votes : VoteLists]

\* lines 467-471: the number of votes whose votedFor?.name === name
VotesFor(votes, name) ==
    Cardinality({i \in 1..Len(votes) : votes[i].votedFor = name})

\* a badge that does not wait for the end of the round
IsWinner_AnyPhase(phase, voteCount, otherCount) ==
    voteCount > otherCount

\* line 474: round.phase === "done" && voteCount > (the other count)
IsWinner(phase, voteCount, otherCount) ==
    phase = "done" /\ voteCount > otherCount

\* drawContestantCard, lines 455-474, for the card of answerTasks[k]
DrawContestantCard(round, k) ==
    LET a == round.contestants[1]
        b == round.contestants[2]
        votesA == VotesFor(round.votes, a)
        votesB == VotesFor(round.votes, b)
        isFirst == round.contestants[1] = round.contestants[k]
        voteCount == IF isFirst THEN votesA ELSE votesB
    IN  [votesA |-> votesA,
         votesB |-> votesB,
         voteCount |-> voteCount,
         isWinner |-> IsWinner(round.phase, voteCount,
                               IF isFirst THEN votesB ELSE votesA)]

\* HistoryCard, src/history.tsx lines 128-146: the second test is an else-if
HistoryCard(round) ==
    LET contA == round.contestants[1]
        contB == round.contestants[2]
        votesA == VotesFor(round.votes, contA)
        votesB == Cardinality({i \in 1..Len(round.votes) :
                                  /\ round.votes[i].votedFor # contA
                                  /\ round.votes[i].votedFor = contB})
    IN  [votesA |-> votesA,
         votesB |-> votesB,
         isAWinner |-> votesA > votesB,
         isBWinner |-> votesB > votesA]

CardsInit ==
    /\ viewIn \in CardRounds
    /\ viewOut = NoValue

\* drawRound draws the two cards of the round; the history page draws its
\* card of the same round
DrawCards ==
    /\ viewIn.tag = "cardRound"
    /\ viewOut = NoValue
    /\ viewOut' = [tag |-> "cards",
                   first |-> DrawContestantCard(viewIn, 1),
                   second |-> DrawContestantCard(viewIn, 2),
                   history |-> HistoryCard(viewIn)]
    /\ UNCHANGED <<viewIn, pageVars, orchVars, sinkVars>>

\* ------------------------------------------------------------------------
\* Renderer: draw() on any snapshot
\* ------------------------------------------------------------------------
\* rounds an active slot can hold: the next round still without a prompt,
\* and a round in each phase
ActiveRounds ==
    {MkRound(2, "prompting", ""), MkRound(2, "prompting", "p2"),
     MkRound(2, "answering", "p2"), MkRound(2, "voting", "p2"),
     MkRound(2, "done", "p2")}

\* score tables: none, a leader, a tie, a leader that is not the first entry,
\* and a tie at the top behind a lower first entry
ScoreTables ==
    {<<>>, <<<<"A", 1>>, <<"B", 0>>>>, <<<<"A", 1>>, <<"B", 1>>>>,
     <<<<"A", 0>>, <<"B", 2>>>>,
     <<<<"A", 3>>, <<"B", 5>>, <<"C", 5>>>>}

\* GameState, lines 31-39, with every combination of its fields
DrawStates ==
    [tag : {"game"},
     generation : {1},
     active : ActiveRounds \cup {NullRound},
     lastCompleted : {NullRound, MkRound(1, "done", "p1")},
     done : BOOLEAN,
     isPaused : BOOLEAN,
     scores : ScoreTables]

DrawInputs ==
    [tag : {"drawInput"},
     state : DrawStates \cup {NullState},
     totalRounds : {NoNumber, 5}]

DrawInit ==
    /\ viewIn \in DrawInputs
    /\ viewOut = NoValue

\* one iteration of renderLoop on the snapshot under test
DrawFrame ==
    /\ viewIn.tag = "drawInput"
    /\ viewOut = NoValue
    /\ viewOut' = [tag |-> "frame",
                   frame |-> Draw(viewIn.state, viewIn.totalRounds)]
    /\ UNCHANGED <<viewIn, pageVars, orchVars, sinkVars>>

\* ------------------------------------------------------------------------
\* Text layout: textLines
\* ------------------------------------------------------------------------
\* a string is a sequence of characters; "W" is a wide glyph
TextChars == {"a", "W", " "}

Texts == UNION {[1..n -> TextChars] : n \in 0..MaxTextLen}

\* ctx.measureText(s).width with a font whose advance widths add up
CharWidth(c) == IF c = "W" THEN 2 ELSE 1

RECURSIVE Measure(_)
Measure(s) == IF s = <<>> THEN 0 ELSE CharWidth(Head(s)) + Measure(Tail(s))

Ellipsis == <<".", ".", ".">>

\* a width test that lets one more unit through
Fits_OffByOne(s, maxWidth) == Measure(s) <= maxWidth + 1

\* ctx.measureText(s).width <= maxWidth, lines 202, 215, 235
Fits(s, maxWidth) == Measure(s) <= maxWidth

RECURSIVE SplitWords(_, _)
\* line 195: text.split(/\s+/).filter(Boolean)
SplitWords(text, cur) ==
    IF text = <<>> THEN (IF cur = <<>> THEN <<>> ELSE <<cur>>)
    ELSE IF Head(text) = " "
    THEN (IF cur = <<>> THEN <<>> ELSE <<cur>>) \o SplitWords(Tail(text), <<>>)
    ELSE SplitWords(Tail(text), Append(cur, Head(text)))

\* a search that always settles for a single character
BestFit_OneChar(remaining, low, high, best, maxWidth) == 1

RECURSIVE BestFit(_, _, _, _, _)
\* lines 208-222: the binary search for the longest prefix that fits; best
\* starts at maxChunkLength = 1 and stays there when no prefix fits
BestFit(remaining, low, high, best, maxWidth) ==
    IF low > high THEN best
    ELSE LET mid == (low + high) \div 2
         IN  IF Fits(SubSeq(remaining, 1, mid), maxWidth)
             THEN BestFit(remaining, mid + 1, high, mid, maxWidth)
             ELSE BestFit(remaining, low, mid - 1, best, maxWidth)

RECURSIVE Pieces(_, _)
\* lines 205-226: the pieces of a word that is wider than maxWidth
Pieces(remaining, maxWidth) ==
    IF remaining = <<>> THEN <<>>
    ELSE LET best == BestFit(remaining, 1, Len(remaining), 1, maxWidth)
         IN  <<SubSeq(remaining, 1, best)>>
                \o Pieces(SubSeq(remaining, best + 1, Len(remaining)),
                          maxWidth)

\* splitWordToFit, lines 200-227
SplitWordToFit(word, maxWidth) ==
    IF word = <<>> THEN <<>>
    ELSE IF Fits(word, maxWidth) THEN <<word>>
    ELSE Pieces(word, maxWidth)

RECURSIVE PackSegments(_, _, _, _, _)
\* the inner loop, lines 232-244, from segment k of a word on; acc holds
\* lines, current, isFirstSegment and whether the loop was left by break
PackSegments(segments, k, acc, maxWidth, maxLines) ==
    IF k > Len(segments) THEN acc
    ELSE LET segment == segments[k]
             prefix == IF acc.isFirstSegment /\ acc.current # <<>>
                       THEN <<" ">> ELSE <<>>
             candidate == IF acc.current # <<>>
                          THEN acc.current \o prefix \o segment
                          ELSE segment
             pushed == IF acc.current # <<>>
                       THEN Append(acc.lines, acc.current) ELSE acc.lines
         IN  IF Fits(candidate, maxWidth)
             THEN PackSegments(segments, k + 1,
                               [acc EXCEPT !.current = candidate,
                                           !.isFirstSegment = FALSE],
                               maxWidth, maxLines)
             ELSE IF Len(pushed) >= maxLines - 1
             THEN [acc EXCEPT !.lines = pushed, !.current = segment,
                              !.isFirstSegment = FALSE]
             ELSE PackSegments(segments, k + 1,
                               [acc EXCEPT !.lines = pushed,
                                           !.current = segment,
                                           !.isFirstSegment = FALSE],
                               maxWidth, maxLines)

RECURSIVE PackWords(_, _, _, _, _)
\* the outer loop, lines 229-246; it is left as soon as lines.length has
\* reached maxLines - 1 at the end of a word
PackWords(words, w, acc, maxWidth, maxLines) ==
    IF w > Len(words) THEN acc
    ELSE LET after == PackSegments(SplitWordToFit(words[w], maxWidth), 1,
                                   [acc EXCEPT !.isFirstSegment = TRUE],
                                   maxWidth, maxLines)
         IN  IF Len(after.lines) >= maxLines - 1 THEN after
             ELSE PackWords(words, w + 1, after, maxWidth, maxLines)

\* a result that keeps every line it collected
CapLines_None(lines, maxLines) == lines

\* lines 252-254: lines.length = maxLines when there are more
CapLines(lines, maxLines) ==
    IF Len(lines) > maxLines THEN SubSeq(lines, 1, maxLines) ELSE lines

RECURSIVE Trim(_, _)
\* lines 260-262: drop characters while more than 3 are left and the line
\* with "..." appended is too wide
Trim(trimmed, maxWidth) ==
    IF Len(trimmed) > 3 /\ ~Fits(trimmed \o Ellipsis, maxWidth)
    THEN Trim(SubSeq(trimmed, 1, Len(trimmed) - 1), maxWidth)
    ELSE trimmed

\* lines 256-265: the last of maxLines lines gets "..." when it is too wide
Truncate(words, lines, maxWidth, maxLines) ==
    IF Len(words) > 0 /\ Len(lines) = maxLines
          /\ ~Fits(lines[maxLines], maxWidth)
    THEN [lines EXCEPT ![maxLines] = Trim(lines[maxLines], maxWidth)
                                        \o Ellipsis]
    ELSE lines

\* textLines(text, maxWidth, font, maxLines), lines 188-268
TextLinesOf(text, maxWidth, maxLines) ==
    LET words == SplitWords(text, <<>>)
        packed == PackWords(words, 1,
                            [lines |-> <<>>, current |-> <<>>,
                             isFirstSegment |-> TRUE],
                            maxWidth, maxLines)
        all == IF packed.current # <<>>
               THEN Append(packed.lines, packed.current) ELSE packed.lines
    IN  Truncate(words, CapLines(all, maxLines), maxWidth, maxLines)

TextInputs ==
    [tag : {"textInput"},
     text : Texts,
     maxWidth : 1..MaxLineWidth,
     maxLines : 1..MaxLines]

TextInit ==
    /\ viewIn \in TextInputs
    /\ viewOut = NoValue

\* one call of textLines on the input under test
TextLines ==
    /\ viewIn.tag = "textInput"
    /\ viewOut = NoValue
    /\ viewOut' = [tag |-> "lines",
                   lines |-> TextLinesOf(viewIn.text, viewIn.maxWidth,
                                         viewIn.maxLines)]
    /\ UNCHANGED <<viewIn, pageVars, orchVars, sinkVars>>

\* the words given to splitWordToFit: strings without white space
Words == UNION {[1..n -> {"a", "W"}] : n \in 0..MaxTextLen}

WordInputs ==
    [tag : {"wordInput"},
     word : Words,
     maxWidth : 1..MaxLineWidth]

WordInit ==
    /\ viewIn \in WordInputs
    /\ viewOut = NoValue

\* one call of splitWordToFit on the word under test
SplitWord ==
    /\ viewIn.tag = "wordInput"
    /\ viewOut = NoValue
    /\ viewOut' = [tag |-> "pieces",
                   pieces |-> SplitWordToFit(viewIn.word, viewIn.maxWidth)]
    /\ UNCHANGED <<viewIn, pageVars, orchVars, sinkVars>>

\* ------------------------------------------------------------------------
\* Renderer: what a frame depends on
\* ------------------------------------------------------------------------
\* the module state of the page at the time of a draw, with the set of
\* logos whose image has finished loading (img.complete in logoCache)
DrawContexts ==
    [totalRounds : {NoNumber, 5},
     loaded : SUBSET {"A", "B"},
     viewerCount : {0, 2},
     connected : BOOLEAN]

\* drawScoreboardSection, line 329: the names drawn with their logo
LogosDrawn(st, loaded) ==
    IF st.tag = "game"
    THEN {st.scores[i][1] : i \in 1..Len(st.scores)} \cap loaded
    ELSE {}

\* a draw() that also prints the viewer count
DrawPage_ShowsViewerCount(st, c) ==
    [frame |-> Draw(st, c.totalRounds),
     logos |-> LogosDrawn(st, c.loaded),
     viewers |-> c.viewerCount]

\* draw(), lines 628-647, with all it reads: state, totalRounds (line 389)
\* and the logo cache (lines 104-119); viewerCount, connected and
\* lastMessageAt are not read by any drawing function
DrawPage(st, c) ==
    [frame |-> Draw(st, c.totalRounds),
     logos |-> LogosDrawn(st, c.loaded)]

DrawPairInputs ==
    [tag : {"drawPair"},
     state : {NullState, GameA, GameB, GameC},
     first : DrawContexts,
     second : DrawContexts]

DrawPairInit ==
    /\ viewIn \in DrawPairInputs
    /\ viewOut = NoValue

\* two draws of the same snapshot at the same clock reading, each in a page
\* with its own history
DrawTwice ==
    /\ viewIn.tag = "drawPair"
    /\ viewOut = NoValue
    /\ viewOut' = [tag |-> "framePair",
                   first |-> DrawPage(viewIn.state, viewIn.first),
                   second |-> DrawPage(viewIn.state, viewIn.second)]
    /\ UNCHANGED <<viewIn, pageVars, orchVars, sinkVars>>

\* ------------------------------------------------------------------------
\* Contestant cards: the answer text
\* ------------------------------------------------------------------------
\* an absent optional field
Absent == "undefined"

\* TaskInfo, lines 2-8, as far as the answer text reads it: finishedAt is
\* absent or a timestamp; result and error are absent, empty or a text
Tasks ==
    [finishedAt : {Absent, "t5"},
     result : {Absent, "", "result"},
     error : {Absent, "", "error"}]

\* JavaScript truthiness of an optional string or timestamp
Truthy(v) == v \notin {Absent, ""}

\* an answer text that takes a finished task without result for a running one
AnswerText_ResultOnly(task) ==
    IF ~Truthy(task.result) THEN "Writing answer..."
    ELSE IF Truthy(task.error) THEN task.error
    ELSE IF task.result # Absent THEN task.result
    ELSE "No answer"

\* drawContestantCard, lines 503-508
AnswerText(task) ==
    IF ~Truthy(task.finishedAt) /\ ~Truthy(task.result)
    THEN "Writing answer..."
    ELSE IF Truthy(task.error) THEN task.error
    ELSE IF task.result # Absent THEN task.result
    ELSE "No answer"

AnswerInputs ==
    [tag : {"answerTasks"}, first : Tasks, second : Tasks]

AnswerInit ==
    /\ viewIn \in AnswerInputs
    /\ viewOut = NoValue

\* drawRound draws the answer text of both cards
DrawAnswers ==
    /\ viewIn.tag = "answerTasks"
    /\ viewOut = NoValue
    /\ viewOut' = [tag |-> "answers",
                   first |-> AnswerText(viewIn.first),
                   second |-> AnswerText(viewIn.second)]
    /\ UNCHANGED <<viewIn, pageVars, orchVars, sinkVars>>

\* ------------------------------------------------------------------------
\* Renderer: the logo cache
\* ------------------------------------------------------------------------
\* model names drawn by the page; two of them share a logo, one has none
LogoNames == {"Opus", "Sonnet", "GPT", "Local"}

NoUrl == "null"

LogoUrls == {"claude.svg", "openai.svg"}

\* getLogoUrl, lines 92-102
GetLogoUrl(name) ==
    IF name \in {"Opus", "Sonnet"} THEN "claude.svg"
    ELSE IF name = "GPT" THEN "openai.svg"
    ELSE NoUrl

\* a cache that asks again for an image whose load failed
CacheAfterLogo_RetryFailed(entry) ==
    IF entry \in {"none", "failed"} THEN "loading" ELSE entry

\* drawModelLogo, lines 108-112: a URL without cache entry gets a new Image
\* whose load starts; an entry, in whatever state, is kept
CacheAfterLogo(entry) ==
    IF entry = "none" THEN "loading" ELSE entry

\* a test that takes every settled image for a drawable one
LogoDrawn_AnyComplete(entry) == entry \in {"loaded", "failed"}

\* drawModelLogo, line 114: img.complete && img.naturalHeight !== 0
LogoDrawn(entry) == entry = "loaded"

\* the logo URLs a frame asks for
UrlsOf(names) == {GetLogoUrl(n) : n \in names} \ {NoUrl}

LogoInit ==
    /\ viewIn = [tag |-> "logoPage"]
    /\ viewOut = [tag |-> "logos",
                  cache |-> [u \in LogoUrls |-> "none"],
                  loads |-> [u \in LogoUrls |-> 0],
                  frames |-> 0,
                  names |-> {},
                  drawn |-> {}]

\* one frame that draws the given names: drawModelLogo for each of them
DrawLogos(names) ==
    /\ viewIn.tag = "logoPage"
    /\ viewOut.frames < MaxFrames
    /\ LET cache == viewOut.cache
           asked == UrlsOf(names)
           after == [u \in LogoUrls |->
                        IF u \in asked THEN CacheAfterLogo(cache[u])
                        ELSE cache[u]]
       IN  viewOut' =
             [viewOut EXCEPT
                !.cache = after,
                !.loads = [u \in LogoUrls |->
                              IF after[u] = "loading" /\ cache[u] # "loading"
                              THEN @[u] + 1 ELSE @[u]],
                !.frames = @ + 1,
                !.names = names,
                !.drawn = {n \in names : /\ GetLogoUrl(n) # NoUrl
                                         /\ LogoDrawn(after[GetLogoUrl(n)])}]
    /\ UNCHANGED <<viewIn, pageVars, orchVars, sinkVars>>

\* the image's load event: complete with a natural height
LogoLoaded(u) ==
    /\ viewIn.tag = "logoPage"
    /\ viewOut.cache[u] = "loading"
    /\ viewOut' = [viewOut EXCEPT !.cache[u] = "loaded"]
    /\ UNCHANGED <<viewIn, pageVars, orchVars, sinkVars>>

\* the image's error event: complete with natural height 0
LogoFailed(u) ==
    /\ viewIn.tag = "logoPage"
    /\ viewOut.cache[u] = "loading"
    /\ viewOut' = [viewOut EXCEPT !.cache[u] = "failed"]
    /\ UNCHANGED <<viewIn, pageVars, orchVars, sinkVars>>

LogoNext ==
    \/ \E names \in SUBSET LogoNames : DrawLogos(names)
    \/ \E u \in LogoUrls : LogoLoaded(u)
    \/ \E u \in LogoUrls : LogoFailed(u)

\* ------------------------------------------------------------------------
\* Round archive: saveRound and getRounds
\* ------------------------------------------------------------------------
\* the rounds handed to saveRound: a number and an optional prompt
ArchiveRounds == [num : 1..2, prompt : {Absent, "p"}]

\* JSON.stringify(round), line 18: the members that have a value, in order
Stringify(round) ==
    <<<<"num", round.num>>>>
        \o (IF round.prompt # Absent THEN <<<<"prompt", round.prompt>>>>
            ELSE <<>>)

\* JSON.parse(r.data), line 27: a member that is not in the text is undefined
Parse(data) ==
    [num |-> data[1][2],
     prompt |-> IF Len(data) >= 2 THEN data[2][2] ELSE Absent]

\* Math.ceil(count / limit), line 31
CeilDiv(count, limit) == (count + limit - 1) \div limit

\* an offset that skips the first page
OffsetOf_PageTimesLimit(pageNo, limit) == pageNo * limit

\* line 22
OffsetOf(pageNo, limit) == (pageNo - 1) * limit

\* ORDER BY id DESC over rows whose ids grow with insertion
RowsNewestFirst(rows) == [i \in 1..Len(rows) |-> rows[Len(rows) + 1 - i]]

\* LIMIT $limit OFFSET $offset
LimitOffset(rows, limit, offset) ==
    SubSeq(rows, offset + 1,
           IF offset + limit < Len(rows) THEN offset + limit ELSE Len(rows))

\* getRounds(page, limit), lines 21-33
GetRoundsOf(rows, pageNo, limit) ==
    LET slice == LimitOffset(RowsNewestFirst(rows), limit,
                             OffsetOf(pageNo, limit))
    IN  [rounds |-> [i \in 1..Len(slice) |-> Parse(slice[i].data)],
         total |-> Len(rows),
         page |-> pageNo,
         limit |-> limit,
         totalPages |-> CeilDiv(Len(rows), limit)]

NoResult == [page |-> 0]

\* the table after CREATE TABLE IF NOT EXISTS on a new database; given
\* holds the rounds handed to saveRound, in the order of the calls
ArchiveInit ==
    /\ viewIn = [tag |-> "archive"]
    /\ viewOut = [tag |-> "rounds",
                  rows |-> <<>>,
                  nextId |-> 1,
                  given |-> <<>>,
                  result |-> NoResult]

\* saveRound(round), lines 16-19
SaveRound(round) ==
    /\ viewIn.tag = "archive"
    /\ Len(viewOut.rows) < MaxArchived
    /\ viewOut' = [viewOut EXCEPT
                     !.rows = Append(@, [id |-> viewOut.nextId,
                                         num |-> round.num,
                                         data |-> Stringify(round)]),
                     !.nextId = @ + 1,
                     !.given = Append(@, round),
                     !.result = NoResult]
    /\ UNCHANGED <<viewIn, pageVars, orchVars, sinkVars>>

\* getRounds(page, limit) on the table as it is
GetRounds(pageNo, limit) ==
    /\ viewIn.tag = "archive"
    /\ viewOut' = [viewOut EXCEPT
                     !.result = GetRoundsOf(viewOut.rows, pageNo, limit)]
    /\ UNCHANGED <<viewIn, pageVars, orchVars, sinkVars>>

ArchiveNext ==
    \/ \E round \in ArchiveRounds : SaveRound(round)
    \/ \E limit \in 1..MaxLimit :
          \E pageNo \in 1..(CeilDiv(Len(viewOut.rows), limit) + 1) :
              GetRounds(pageNo, limit)

\* ------------------------------------------------------------------------
\* Chunk relay: the capture connections of one encoder
\* ------------------------------------------------------------------------
ConnectionIds == 1..MaxConnections

\* the chunk server is listening, the encoder is running, nothing connected
RelayInit ==
    /\ viewIn = [tag |-> "relay"]
    /\ viewOut = [tag |-> "relayed",
                  connections |-> [c \in ConnectionIds |-> "none"],
                  written |-> <<>>]

\* part_001 fetch, lines 193-199: a request for /chunks is upgraded,
\* whatever connections exist; the page opens one per page load
\* (part_000 line 669) and loads again on location.reload()
CaptureConnect(c) ==
    /\ viewIn.tag = "relay"
    /\ viewOut.connections[c] = "none"
    /\ \A d \in 1..(c - 1) : viewOut.connections[d] # "none"
    /\ viewOut' = [viewOut EXCEPT !.connections[c] = "open"]
    /\ UNCHANGED <<viewIn, pageVars, orchVars, sinkVars>>

\* the connection ends: the page was closed or reloaded, or the link failed
CaptureClose(c) ==
    /\ viewIn.tag = "relay"
    /\ viewOut.connections[c] = "open"
    /\ viewOut' = [viewOut EXCEPT !.connections[c] = "closed"]
    /\ UNCHANGED <<viewIn, pageVars, orchVars, sinkVars>>

\* websocket.message, lines 201-226: a binary message of any connection is
\* written to ffmpeg.stdin, a string is dropped; written holds, for each
\* chunk written to the encoder, the connection it came from
RelayMessage(c, binary) ==
    /\ viewIn.tag = "relay"
    /\ viewOut.connections[c] = "open"
    /\ Len(viewOut.written) < MaxRelayed
    /\ viewOut' = [viewOut EXCEPT
                     !.written = IF binary THEN Append(@, c) ELSE @]
    /\ UNCHANGED <<viewIn, pageVars, orchVars, sinkVars>>

RelayNext ==
    \/ \E c \in ConnectionIds : CaptureConnect(c)
    \/ \E c \in ConnectionIds : CaptureClose(c)
    \/ \E c \in ConnectionIds, binary \in BOOLEAN : RelayMessage(c, binary)

\* ------------------------------------------------------------------------
\* History view: App and its page fetches
\* ------------------------------------------------------------------------
\* the response of /api/history?page=p on an archive of serverPages pages:
\* the rounds of page p, here their page and how many there are; the empty
\* archive has no page; pages are counted from the newest round, so what a
\* page holds depends on the archive as of the response
HistoryResponse(p, serverPages) ==
    [rounds |-> [page |-> p, count |-> IF p <= serverPages THEN 1 ELSE 0,
                 asOf |-> serverPages],
     totalPages |-> serverPages]

\* useState<RoundState[]>([]), line 240
NoRounds == [page |-> 0, count |-> 0, asOf |-> 0]

\* pagination that stays on screen while a page is loading
ButtonsShown_WhileLoading(v) ==
    /\ ~v.error
    /\ v.rounds.count # 0
    /\ v.totalPages > 1

\* lines 279-313: the PREV and NEXT buttons are rendered when the view is
\* not loading, shows no error, has rounds and more than one page
ButtonsShown(v) ==
    /\ ~v.loading
    /\ ~v.error
    /\ v.rounds.count # 0
    /\ v.totalPages > 1

\* the effect of lines 246-259 for page p: setLoading(true) and a fetch
AfterPageChange(v, p) ==
    [v EXCEPT !.page = p,
              !.loading = TRUE,
              !.pending = @ \cup {[id |-> v.issued + 1, page |-> p]},
              !.issued = @ + 1]

\* App has been mounted and its effect has run for page 1
HistoryInit ==
    /\ viewIn = [tag |-> "historyView"]
    /\ viewOut = [tag |-> "history",
                  serverPages |-> 0,
                  page |-> 1,
                  rounds |-> NoRounds,
                  totalPages |-> 1,
                  loading |-> TRUE,
                  error |-> FALSE,
                  pending |-> {[id |-> 1, page |-> 1]},
                  issued |-> 1]

\* NEXT, lines 304-310: setPage(p => p + 1), then the effect
ClickNext ==
    /\ viewIn.tag = "historyView"
    /\ ButtonsShown(viewOut)
    /\ viewOut.page # viewOut.totalPages
    /\ viewOut.issued < MaxFetches
    /\ viewOut' = AfterPageChange(viewOut, viewOut.page + 1)
    /\ UNCHANGED <<viewIn, pageVars, orchVars, sinkVars>>

\* PREV, lines 294-300: setPage(p => p - 1), then the effect
ClickPrev ==
    /\ viewIn.tag = "historyView"
    /\ ButtonsShown(viewOut)
    /\ viewOut.page # 1
    /\ viewOut.issued < MaxFetches
    /\ viewOut' = AfterPageChange(viewOut, viewOut.page - 1)
    /\ UNCHANGED <<viewIn, pageVars, orchVars, sinkVars>>

\* lines 249-254: a response arrives, whichever fetch it belongs to
FetchResolves(f) ==
    /\ viewIn.tag = "historyView"
    /\ f \in viewOut.pending
    /\ LET data == HistoryResponse(f.page, viewOut.serverPages)
       IN  viewOut' = [viewOut EXCEPT
                         !.rounds = data.rounds,
                         !.totalPages = IF data.totalPages = 0 THEN 1
                                        ELSE data.totalPages,
                         !.loading = FALSE,
                         !.pending = @ \ {f}]
    /\ UNCHANGED <<viewIn, pageVars, orchVars, sinkVars>>

\* lines 255-258: the fetch or res.json() failed
FetchRejects(f) ==
    /\ viewIn.tag = "historyView"
    /\ f \in viewOut.pending
    /\ viewOut' = [viewOut EXCEPT !.error = TRUE,
                                  !.loading = FALSE,
                                  !.pending = @ \ {f}]
    /\ UNCHANGED <<viewIn, pageVars, orchVars, sinkVars>>

\* saveRound on the server fills the archive up to one more page
ArchiveGrows ==
    /\ viewIn.tag = "historyView"
    /\ viewOut.serverPages < MaxHistoryPages
    /\ viewOut' = [viewOut EXCEPT !.serverPages = @ + 1]
    /\ UNCHANGED <<viewIn, pageVars, orchVars, sinkVars>>

HistoryNext ==
    \/ ArchiveGrows
    \/ ClickNext
    \/ ClickPrev
    \/ \E f \in viewOut.pending : FetchResolves(f)
    \/ \E f \in viewOut.pending : FetchRejects(f)

\* ------------------------------------------------------------------------
\* Specifications
\* ------------------------------------------------------------------------
\* the broadcast page
Init ==
    /\ PageInit
    /\ now = 0
    /\ OrchInit
    /\ argMode = "live"
    /\ streamKeySet
    /\ SinkIdle
    /\ ViewIdle

Next ==
    \/ \E s \in SocketIds : OnOpen(s)
    \/ \E s \in SocketIds : OnClose(s)
    \/ \E t \in timers : ReconnectFire(t)
    \/ \E s \in SocketIds, m \in Messages : OnMessage(s, m)
    \/ PageLoad
    \/ RenderLoop
    \/ Tick

Spec == Init /\ [][Next]_vars

\* a timeout that is pending fires: the browser runs a due timer callback
PageFairness ==
    WF_vars(\E t \in timers : ReconnectFire(t))

\* the broadcast page under the scheduling above
SpecPageFair == Init /\ [][Next]_vars /\ PageFairness

\* the stream orchestrator
InitOrch ==
    /\ OrchInit
    /\ PageInit
    /\ now = 0
    /\ SinkIdle
    /\ ViewIdle

SpecOrch == InitOrch /\ [][OrchNext]_vars

\* the steps the runtime takes on its own once they are enabled: a settled
\* await resumes main(), an armed timer fires, a promise that settled runs
\* its continuation, browser.close() settles, the pump sees the end of the
\* encoder's output, and a subprocess that was sent SIGTERM exits.  Signals,
\* media chunks, and a subprocess exiting on its own are left to the
\* environment.
OrchFairness ==
    /\ WF_vars(ResolveMode)
    /\ WF_vars(\E ok \in BOOLEAN : Reachable(ok))
    /\ WF_vars(\E ok \in BOOLEAN : Launched(ok))
    /\ WF_vars(\E ok \in BOOLEAN : PageReady(ok))
    /\ WF_vars(FirstChunkTimeout)
    /\ WF_vars(FirstChunkSettled)
    /\ WF_vars(\E c \in 1..(MaxSignals + 1), closed \in BOOLEAN,
                  t \in SUBSET {"endFfmpegStdin", "killFfmpeg",
                                "endFfplayStdin", "killFfplay"} :
                  ShutdownResume(c, closed, t))
    /\ WF_vars(ffmpegSignalled /\ \E code \in ExitCodes : FfmpegExit(code))
    /\ WF_vars(ffplaySignalled /\ FfplayExit)
    /\ WF_vars(PumpDone)
    /\ WF_vars(\E t \in SUBSET {"stopServer"} : MainAfterFfmpegExit(t))
    /\ WF_vars(MainAfterPump)
    /\ WF_vars(\E t \in SUBSET {"stopServer"} : MainAfterFfplayExit(t))
    /\ WF_vars(MainAfterShutdown)
    /\ WF_vars(ProcessEnds)

\* the stream orchestrator under the scheduling above
SpecOrchFair == InitOrch /\ [][OrchNext]_vars /\ OrchFairness

\* the capture sink of a page that may have been given a sink parameter
InitSink ==
    /\ SinkInit
    /\ PageInit
    /\ now = 0
    /\ OrchInit
    /\ argMode = "live"
    /\ streamKeySet
    /\ ViewIdle

SpecSink == InitSink /\ [][SinkNext]_vars

\* the cards of one round, for every round of the bounded domain
InitCards ==
    /\ CardsInit
    /\ PageInit
    /\ now = 0
    /\ OrchInit
    /\ argMode = "live"
    /\ streamKeySet
    /\ SinkIdle

SpecCards == InitCards /\ [][DrawCards]_vars

\* draw() on one snapshot, for every snapshot of the bounded domain
InitDraw ==
    /\ DrawInit
    /\ PageInit
    /\ now = 0
    /\ OrchInit
    /\ argMode = "live"
    /\ streamKeySet
    /\ SinkIdle

SpecDraw == InitDraw /\ [][DrawFrame]_vars

\* textLines on one input, for every input of the bounded domain
InitText ==
    /\ TextInit
    /\ PageInit
    /\ now = 0
    /\ OrchInit
    /\ argMode = "live"
    /\ streamKeySet
    /\ SinkIdle

SpecText == InitText /\ [][TextLines]_vars

\* the history view under page changes and responses
InitHistory ==
    /\ HistoryInit
    /\ PageInit
    /\ now = 0
    /\ OrchInit
    /\ argMode = "live"
    /\ streamKeySet
    /\ SinkIdle

SpecHistory == InitHistory /\ [][HistoryNext]_vars

\* the chunk relay of one encoder process
InitRelay ==
    /\ RelayInit
    /\ PageInit
    /\ now = 0
    /\ OrchInit
    /\ argMode = "live"
    /\ streamKeySet
    /\ SinkIdle

SpecRelay == InitRelay /\ [][RelayNext]_vars

\* the round archive under saves and page reads
InitArchive ==
    /\ ArchiveInit
    /\ PageInit
    /\ now = 0
    /\ OrchInit
    /\ argMode = "live"
    /\ streamKeySet
    /\ SinkIdle

SpecArchive == InitArchive /\ [][ArchiveNext]_vars

\* the logo cache over a sequence of frames
InitLogos ==
    /\ LogoInit
    /\ PageInit
    /\ now = 0
    /\ OrchInit
    /\ argMode = "live"
    /\ streamKeySet
    /\ SinkIdle

SpecLogos == InitLogos /\ [][LogoNext]_vars

\* splitWordToFit on its own, for every word and width
InitWord ==
    /\ WordInit
    /\ PageInit
    /\ now = 0
    /\ OrchInit
    /\ argMode = "live"
    /\ streamKeySet
    /\ SinkIdle

SpecWord == InitWord /\ [][SplitWord]_vars

\* two draws of one snapshot, for every pair of page histories
InitDrawPair ==
    /\ DrawPairInit
    /\ PageInit
    /\ now = 0
    /\ OrchInit
    /\ argMode = "live"
    /\ streamKeySet
    /\ SinkIdle

SpecDrawPair == InitDrawPair /\ [][DrawTwice]_vars

\* the answer texts of the two cards, for every pair of answer tasks
InitAnswers ==
    /\ AnswerInit
    /\ PageInit
    /\ now = 0
    /\ OrchInit
    /\ argMode = "live"
    /\ streamKeySet
    /\ SinkIdle

SpecAnswers == InitAnswers /\ [][DrawAnswers]_vars


\* ------------------------------------------------------------------------
\* Properties of the state-sync client and the render loop
\* ------------------------------------------------------------------------

\* C1: at most one reconnect timer is pending; the pending timer is the one
\* held in reconnectTimer (so the next close cancels it), it fires after 1 s,
\* and once every socket has closed exactly one reconnect attempt is scheduled.
C1_SingleReconnectTimer ==
    /\ Cardinality(timers) <= 1
    /\ \A t \in timers : t.id = reconnectTimer /\ t.delay = 1000
    /\ LiveSockets = {} => Cardinality(timers) = 1

\* a reconnect is pending for the second time in one session
C1_Witness ==
    /\ Cardinality(timers) = 1
    /\ reconnectTimer = 2
    /\ sockets[2] = "closed"

\* C2: in one page session the page is reloaded exactly once if some state
\* message carried a version different from the first-seen one, and is not
\* reloaded otherwise.
C2_ReloadIffVersionMismatch ==
    reloads = IF mismatchSeen THEN 1 ELSE 0

C2_Witness ==
    /\ mismatchSeen
    /\ reloads = 1
    /\ page = "reloading"
    /\ firstSeenVersion = "v1"

\* C3: no malformed payload (one that fails to parse, or parses to the
\* wrong shape) has changed the snapshot, totalRounds, viewerCount or the
\* last-update timestamp, and no error has left the message handler.
C3_MalformedDropped ==
    ~malformedApplied /\ ~handlerThrew

\* C4: no viewerCount message has changed the snapshot, totalRounds, the
\* last-update timestamp or the recorded version.
C4_ViewerCountOnlyCounter ==
    ~viewerMsgTouched

\* a viewerCount message has set the counter (only that kind carries 2)
\* after a snapshot and a version were recorded and the clock moved on
C4_Witness ==
    /\ viewerCount = 2
    /\ state = GameB
    /\ totalRounds = 5
    /\ knownVersion = "v1"
    /\ lastMessageAt < now

\* C5: the snapshot is exactly the data of the last applied state message
\* (nothing of an earlier snapshot survives), and the frame on the canvas is
\* the drawing of the message that was the last applied one when it was drawn.
C5_FrameFromLatestSnapshot ==
    /\ state = lastApplied.data
    /\ totalRounds = lastApplied.totalRounds
    /\ frame = Draw(appliedAtDraw.data, appliedAtDraw.totalRounds)

\* a frame drawn from a second snapshot that replaced a first one
C5_Witness ==
    /\ frame = Draw(GameC, NoNumber)
    /\ state = GameC
    /\ knownVersion = "v2"
    /\ firstSeenVersion = "v2"
    /\ lastMessageAt < now

\* C6: once the render loop has started a frame request is always pending.
C6_FrameRequestAlwaysPending ==
    page = "live" => rafPending

\* ------------------------------------------------------------------------
\* Properties of the stream orchestrator
\* ------------------------------------------------------------------------

\* C7: when the process exits because no media chunk arrived within 10 s, its
\* status is non-zero and, by then, the headless browser has been closed and
\* the encoder and any preview subprocess have been terminated.
C7_NoChunkExitAfterTeardown ==
    (proc = "exited" /\ exitCause = "timeout")
        => /\ exitStatus > 0
           /\ browser = "closed"
           /\ ffmpeg = "exited" \/ ffmpegSignalled
           /\ ffplay # "none" => (ffplay = "exited" \/ ffplaySignalled)

TeardownOrder ==
    <<"stopServer", "closeBrowser", "endFfmpegStdin", "killFfmpeg",
      "endFfplayStdin", "killFfplay">>

\* the teardown steps that apply: the preview steps only with a preview
TeardownLength == IF ffplay = "none" THEN 4 ELSE 6

LoggedSteps(call) ==
    {sdLog[i].step : i \in {j \in 1..Len(sdLog) : sdLog[j].call = call}}

\* C8: the teardown steps attempted so far are, in order, an initial part of
\* relay server, browser, encoder input, encoder kill, preview input,
\* preview kill: no step is attempted before the ones that precede it.
C8_TeardownOrder ==
    /\ Len(sdLog) <= TeardownLength
    /\ \A i \in 1..Len(sdLog) : sdLog[i].step = TeardownOrder[i]

\* a whole teardown in dryrun mode
C8_Witness ==
    /\ Len(sdLog) = 6
    /\ sdLog[6].step = "killFfplay"

\* C9: no teardown step is executed twice, and at most one call of shutdown()
\* ever gets past the flag, however often shutdown is triggered.
C9_ShutdownSingleShot ==
    /\ \A i, j \in 1..Len(sdLog) : sdLog[i].step = sdLog[j].step => i = j
    /\ Cardinality({c \in 1..Len(sdCalls) : sdCalls[c] # "returned"}) <= 1

\* a signal started the teardown; a second signal and main() both found it
\* in progress
C9_Witness ==
    /\ Len(sdCalls) = 3
    /\ sdCalls[1] = "awaitBrowserClose"
    /\ sdCalls[2] = "returned"
    /\ sdCalls[3] = "returned"
    /\ mainCall # 0

\* C10: no call of shutdown() raises, and a call that has run to its end has
\* attempted every teardown step, whichever of them threw.
C10_BestEffortTeardown ==
    /\ ~sdRaised
    /\ \A c \in 1..Len(sdCalls) :
          sdCalls[c] \notin {"returned", "awaitBrowserClose"}
              => LoggedSteps(c) = {TeardownOrder[i] : i \in 1..TeardownLength}

\* a teardown that ran to its end although two of its steps threw
C10_Witness ==
    /\ Len(sdCalls) >= 1
    /\ sdCalls[1] = "done"
    /\ Len(sdLog) = 4
    /\ sdLog[1].threw
    /\ sdLog[3].threw
    /\ browser = "open"

\* C11: a SIGINT or SIGTERM delivered after the encoder was spawned makes the
\* shutdown sequence run.  (A signal delivered before the spawn ends the
\* process at once, so a spawned encoder together with a delivered signal
\* means the signal came after the spawn.)
C11_SignalRunsShutdown ==
    (signals > 0 /\ ffmpeg # "none") => sdLog # <<>>

\* C12: after the encoder has exited the shutdown sequence runs and the
\* process terminates; in particular the process never terminates after an
\* encoder exit without the shutdown sequence having run.
C12_EncoderExitRunsShutdown ==
    (proc = "exited" /\ ffmpeg = "exited") => sdLog # <<>>

\* C13: once streaming has started (the first chunk arrived and main() went
\* on to wait for the encoder) the process exits only after the encoder has,
\* and with the encoder's exit code as its status; an encoder that has exited
\* is not started again.
C13_ExitStatusMirrorsEncoder ==
    [][/\ (proc' = "exited" /\ handlersInstalled')
            => (ffmpeg' = "exited" /\ exitStatus' = ffmpegCode')
       /\ ffmpeg = "exited"
            => (ffmpeg' = "exited" /\ ffmpegCode' = ffmpegCode)]_vars

\* the encoder was ended by the teardown's SIGTERM and the process exited
\* with the encoder's code
C13_Witness ==
    /\ proc = "exited"
    /\ handlersInstalled
    /\ ffmpegSignalled
    /\ ffmpegCode = 143
    /\ exitStatus = 143

NothingSpawned ==
    /\ ffmpeg = "none"
    /\ ffplay = "none"
    /\ chunkServer = "none"
    /\ browser = "none"

BadArguments ==
    argMode = "other" \/ (argMode = "live" /\ ~streamKeySet)

\* C14: with a mode argument that is neither live nor dryrun, or live mode
\* without a stream key, main() is never entered; with those arguments, and
\* when the broadcast page was found unreachable, no encoder, preview, relay
\* server or browser has been started and the exit status is non-zero.
C14_PreflightFailureSpawnsNothing ==
    /\ BadArguments => mainPc = "resolveMode"
    /\ (BadArguments \/ exitCause = "unreachable") => NothingSpawned
    /\ (proc = "exited" /\ (BadArguments \/ exitCause = "unreachable"))
          => exitStatus > 0

\* live mode without a stream key has ended the process with status 1
C14_Witness ==
    /\ proc = "exited"
    /\ argMode = "live"
    /\ ~streamKeySet
    /\ exitCause = "nokey"
    /\ exitStatus = 1

\* the broadcast page did not answer and the process ended with status 1
C14_WitnessUnreachable ==
    /\ proc = "exited"
    /\ exitCause = "unreachable"
    /\ exitStatus = 1

\* ------------------------------------------------------------------------
\* Properties of the capture sink
\* ------------------------------------------------------------------------

\* C15: a recorded chunk goes on to the transport exactly when, as it is
\* delivered by the recorder, it is non-empty, the sink socket is open and
\* bufferedAmount is at most 16,000,000; every other chunk is dropped, never
\* sent, and the chunks after it are still handled.
C15_OnlyTestedChunksSent ==
    \A i \in 1..Len(captured) :
        /\ captured[i].outcome \in {"converting", "sent"}
              <=> /\ captured[i].size > 0
                  /\ captured[i].readyState = "open"
                  /\ captured[i].buffered <= 16000000
        /\ captured[i].outcome = "dropped" => captured[i].sentTo = "none"

\* a chunk was sent with bufferedAmount exactly at the ceiling, the next one
\* was dropped for congestion, and after the queue drained a later chunk was
\* sent
C15_Witness ==
    /\ Len(captured) = 4
    /\ captured[1].outcome = "sent"
    /\ captured[2].outcome = "sent" /\ captured[2].buffered = 16000000
    /\ captured[3].outcome = "dropped" /\ captured[3].buffered > 16000000
                                       /\ captured[3].size > 0
                                       /\ captured[3].readyState = "open"
    /\ captured[4].outcome = "sent" /\ captured[4].buffered = 0

\* C16: no chunk is passed to socket.send once the sink socket has closed,
\* chunks whose conversion was in flight at the close included, and capture
\* is stopped when the socket has closed.
C16_NoSendAfterClose ==
    /\ \A i \in 1..Len(captured) :
          captured[i].outcome = "sent" => captured[i].sentTo # "closed"
    /\ sinkSocket = "closed" => recorder # "recording"

\* ------------------------------------------------------------------------
\* Properties of the contestant cards
\* ------------------------------------------------------------------------

\* the votes of the round under test that name one of its contestants
NamingVotes ==
    {i \in 1..Len(viewIn.votes) :
        viewIn.votes[i].votedFor \in {viewIn.contestants[1],
                                      viewIn.contestants[2]}}

\* C17: on the broadcast card and on the history card the two derived counts
\* add up to no more than the number of votes that name a contestant, hence
\* to no more than votes.length: a vote naming neither contestant adds to
\* neither count.
C17_CountsWithinVotes ==
    viewOut.tag = "cards" =>
        /\ viewOut.first.votesA + viewOut.first.votesB
              <= Cardinality(NamingVotes)
        /\ viewOut.history.votesA + viewOut.history.votesB
              <= Cardinality(NamingVotes)
        /\ Cardinality(NamingVotes) <= Len(viewIn.votes)

\* C18: a contestant's count is the number of votes that carry no error and
\* whose votedFor is present and names that contestant.
C18_OnlyValidVotesCounted ==
    viewOut.tag = "cards" =>
        /\ viewOut.first.votesA
              = Cardinality({i \in 1..Len(viewIn.votes) :
                                /\ viewIn.votes[i].votedFor
                                      = viewIn.contestants[1]
                                /\ ~viewIn.votes[i].error})
        /\ viewOut.first.votesB
              = Cardinality({i \in 1..Len(viewIn.votes) :
                                /\ viewIn.votes[i].votedFor
                                      = viewIn.contestants[2]
                                /\ ~viewIn.votes[i].error})

\* C19: a card shows the winner badge exactly when the round is done and its
\* contestant's count is strictly greater than the other contestant's; the
\* two cards of a round never both show it, and with equal counts neither
\* does.
C19_WinnerBadge ==
    viewOut.tag = "cards" =>
        /\ viewOut.first.isWinner
              <=> /\ viewIn.phase = "done"
                  /\ viewOut.first.votesA > viewOut.first.votesB
        /\ viewOut.second.isWinner
              <=> /\ viewIn.phase = "done"
                  /\ viewOut.second.votesB > viewOut.second.votesA
        /\ ~(viewOut.first.isWinner /\ viewOut.second.isWinner)
        /\ viewOut.first.votesA = viewOut.first.votesB
              => ~viewOut.first.isWinner /\ ~viewOut.second.isWinner

\* two votes for A and one for B in a finished round: A's card has the badge
C19_Witness ==
    /\ viewOut.tag = "cards"
    /\ viewIn.phase = "done"
    /\ viewIn.contestants = <<"A", "B">>
    /\ viewOut.first.votesA = 2
    /\ viewOut.first.votesB = 1
    /\ viewOut.first.isWinner
    /\ ~viewOut.second.isWinner

\* ------------------------------------------------------------------------
\* Properties of the renderer
\* ------------------------------------------------------------------------

\* the snapshot under test has neither an active nor a completed round
NoRoundToShow ==
    /\ viewIn.state.tag = "game"
    /\ viewIn.state.active = NullRound
    /\ viewIn.state.lastCompleted = NullRound

\* C20 as stated: with active null and lastCompleted null the frame is the
\* waiting placeholder, whatever done, scores and isPaused are.
C20_Original ==
    (viewOut.tag = "frame" /\ NoRoundToShow)
        => viewOut.frame.view = "waiting"

\* C20, amended: with active null, lastCompleted null and done false the
\* frame is the waiting placeholder, whatever scores and isPaused are.
C20_WaitingWhenNoRound ==
    (viewOut.tag = "frame" /\ NoRoundToShow /\ ~viewIn.state.done)
        => (viewOut.frame.view = "waiting" /\ ~viewOut.frame.threw)

\* the placeholder drawn for a paused game with scores and no round
C20_Witness ==
    /\ viewOut.tag = "frame"
    /\ NoRoundToShow
    /\ ~viewIn.state.done
    /\ viewIn.state.isPaused
    /\ viewIn.state.scores # <<>>
    /\ viewOut.frame.view = "waiting"

\* the snapshot under test has an active round that is still waiting for
\* its prompt, and a completed round
NextRoundPrompting ==
    /\ viewIn.state.tag = "game"
    /\ viewIn.state.active.tag = "round"
    /\ viewIn.state.active.phase = "prompting"
    /\ viewIn.state.active.prompt = ""
    /\ viewIn.state.lastCompleted.tag = "round"

\* C21: when the active round is prompting without prompt text and a
\* completed round exists, a frame that shows a round shows lastCompleted,
\* never the active round, and unless the game is done the frame does show
\* a round.
C21_CompletedRoundDuringPrompting ==
    (viewOut.tag = "frame" /\ NextRoundPrompting)
        => /\ viewOut.frame.view = "round"
                => /\ viewOut.frame.round = viewIn.state.lastCompleted
                   /\ viewOut.frame.round # viewIn.state.active
           /\ ~viewIn.state.done => viewOut.frame.view = "round"

\* the completed round drawn while round 2 waits for its prompt
C21_Witness ==
    /\ viewOut.tag = "frame"
    /\ NextRoundPrompting
    /\ ~viewIn.state.done
    /\ viewOut.frame.view = "round"
    /\ viewOut.frame.round = MkRound(1, "done", "p1")

\* C22 as stated: with done set the frame is the end-of-game summary naming
\* a leader, for every active, lastCompleted and scores.
C22_Original ==
    (viewOut.tag = "frame" /\ viewIn.state.tag = "game" /\ viewIn.state.done)
        => /\ viewOut.frame.view = "done"
           /\ viewOut.frame.leader # <<>>

\* C22, amended: with done set the frame shows neither a round nor the
\* placeholder, for every active, lastCompleted and scores; it is the
\* end-of-game summary naming a leader taken from scores when scores has an
\* entry, and has an empty main area when scores has none.
C22_SummaryWhenDone ==
    (viewOut.tag = "frame" /\ viewIn.state.tag = "game" /\ viewIn.state.done)
        => /\ viewOut.frame.view \notin {"round", "waiting"}
           /\ ~viewOut.frame.threw
           /\ IF viewIn.state.scores = <<>>
              THEN viewOut.frame.view = "empty"
              ELSE /\ viewOut.frame.view = "done"
                   /\ \E i \in 1..Len(viewIn.state.scores) :
                         viewOut.frame.leader = viewIn.state.scores[i]

\* the summary drawn although an active and a completed round are present
C22_Witness ==
    /\ viewOut.tag = "frame"
    /\ viewIn.state.tag = "game"
    /\ viewIn.state.done
    /\ viewIn.state.active = MkRound(2, "voting", "p2")
    /\ viewIn.state.lastCompleted = MkRound(1, "done", "p1")
    /\ viewOut.frame.view = "done"
    /\ viewOut.frame.leader = <<"A", 1>>

\* C23: the leader of the summary is an entry of scores whose score is
\* greater than or equal to the score of every entry.
C23_LeaderHasTopScore ==
    (viewOut.tag = "frame" /\ viewOut.frame.view = "done")
        => /\ \E i \in 1..Len(viewIn.state.scores) :
                 viewOut.frame.leader = viewIn.state.scores[i]
           /\ \A i \in 1..Len(viewIn.state.scores) :
                 viewOut.frame.leader[2] >= viewIn.state.scores[i][2]

\* scores A:3, B:5, C:5: the leader is one of the two with 5
C23_Witness ==
    /\ viewOut.tag = "frame"
    /\ viewOut.frame.view = "done"
    /\ Len(viewIn.state.scores) = 3
    /\ viewOut.frame.leader[2] = 5
    /\ viewOut.frame.leader[1] \in {"B", "C"}

\* ------------------------------------------------------------------------
\* Properties of textLines
\* ------------------------------------------------------------------------

IsInk(c) == c \notin {" ", "."}

RECURSIVE Flatten(_)
Flatten(lines) ==
    IF lines = <<>> THEN <<>> ELSE Head(lines) \o Flatten(Tail(lines))

\* the characters of the text that are not white space, and those of them
\* that made it into the returned lines
TextInk == SelectSeq(viewIn.text, IsInk)
LinesInk == SelectSeq(Flatten(viewOut.lines), IsInk)

\* every single character of the text fits the width
EveryCharFits ==
    \A i \in 1..Len(viewIn.text) : CharWidth(viewIn.text[i]) <= viewIn.maxWidth

\* C24 as stated: no line for a text without a word, and for every text,
\* width and line cap every returned line measures at most maxWidth.
C24_Original ==
    viewOut.tag = "lines" =>
        /\ TextInk = <<>> => viewOut.lines = <<>>
        /\ \A i \in 1..Len(viewOut.lines) :
              Measure(viewOut.lines[i]) <= viewIn.maxWidth

\* C24, amended: no line for a text without a word, and for every text and
\* line cap and every maxWidth that is at least the width of each single
\* character of the text, every returned line measures at most maxWidth,
\* also when a space-free word is wider than maxWidth.
C24_LinesWithinWidth ==
    viewOut.tag = "lines" =>
        /\ TextInk = <<>> => viewOut.lines = <<>>
        /\ EveryCharFits =>
              \A i \in 1..Len(viewOut.lines) :
                  Measure(viewOut.lines[i]) <= viewIn.maxWidth

\* a space-free word of width 8 laid out in three lines of width 3 or less
C24_Witness ==
    /\ viewOut.tag = "lines"
    /\ viewIn.text = <<"W", "a", "W", "a", "W">>
    /\ viewIn.maxWidth = 3
    /\ viewIn.maxLines = 3
    /\ viewOut.lines = <<<<"W", "a">>, <<"W", "a">>, <<"W">>>>

\* C25: textLines returns at most maxLines lines.
C25_AtMostMaxLines ==
    viewOut.tag = "lines" => Len(viewOut.lines) <= viewIn.maxLines

\* three words, one line allowed: one line is returned
C25_Witness ==
    /\ viewOut.tag = "lines"
    /\ viewIn.text = <<"a", " ", "a", " ", "a">>
    /\ viewIn.maxWidth = 1
    /\ viewIn.maxLines = 1
    /\ Len(viewOut.lines) = 1

\* C26: when part of the text is left out of the returned lines, the last
\* line ends with an ellipsis and, with it, measures at most maxWidth.
C26_EllipsisWhenCut ==
    (viewOut.tag = "lines" /\ LinesInk # TextInk) =>
        /\ viewOut.lines # <<>>
        /\ LET last == viewOut.lines[Len(viewOut.lines)]
           IN  /\ Len(last) >= 3
               /\ SubSeq(last, Len(last) - 2, Len(last)) = Ellipsis
               /\ Measure(last) <= viewIn.maxWidth

\* ------------------------------------------------------------------------
\* Properties of the page during a state outage
\* ------------------------------------------------------------------------

C30_AnswerText ==
    viewOut.tag = "answers" =>
        \A c \in {"first", "second"} :
            LET task == viewIn[c]
                shown == viewOut[c]
                running == /\ task.finishedAt = Absent
                           /\ task.result \in {Absent, ""}
            IN  /\ shown = "Writing answer..." <=> running
                /\ (~running /\ task.error \notin {Absent, ""})
                      => shown = task.error
                /\ (~running /\ task.error \in {Absent, ""}
                             /\ task.result # Absent)
                      => shown = task.result
                /\ (~running /\ task.error \in {Absent, ""}
                             /\ task.result = Absent)
                      => shown = "No answer"
                /\ task.finishedAt # Absent => shown # "Writing answer..."

\* one task finished without a result shows the no-answer text, the other,
\* finished with an error, shows the error
C30_Witness ==
    /\ viewOut.tag = "answers"
    /\ viewIn.first = [finishedAt |-> "t5", result |-> Absent, error |-> Absent]
    /\ viewOut.first = "No answer"
    /\ viewIn.second = [finishedAt |-> "t5", result |-> "", error |-> "error"]
    /\ viewOut.second = "error"

\* ------------------------------------------------------------------------
\* Properties of splitWordToFit
\* ------------------------------------------------------------------------

\* what is left of the word before piece i
RemainingBefore(i) ==
    LET used == Len(Flatten(SubSeq(viewOut.pieces, 1, i - 1)))
    IN  SubSeq(viewIn.word, used + 1, Len(viewIn.word))

\* the length of the longest prefix of s that measures at most maxWidth,
\* and 1 when not even one character fits
LongestFit(s, maxWidth) ==
    LET fitting == {n \in 1..Len(s) : Measure(SubSeq(s, 1, n)) <= maxWidth}
    IN  IF fitting = {} THEN 1
        ELSE CHOOSE n \in fitting : \A m \in fitting : m <= n

\* C31: splitting a word wider than maxWidth ends with finitely many
\* non-empty pieces, each the longest prefix of the remaining characters
\* that measures at most maxWidth (one character when none fits), and the
\* pieces concatenated in order are the word.
C31_PiecesAreLongestPrefixes ==
    (viewOut.tag = "pieces" /\ Measure(viewIn.word) > viewIn.maxWidth) =>
        /\ Len(viewOut.pieces) \in 1..Len(viewIn.word)
        /\ Flatten(viewOut.pieces) = viewIn.word
        /\ \A i \in 1..Len(viewOut.pieces) :
              LET rem == RemainingBefore(i)
                  n == LongestFit(rem, viewIn.maxWidth)
              IN  /\ viewOut.pieces[i] # <<>>
                  /\ viewOut.pieces[i] = SubSeq(rem, 1, n)

\* "aaWWa" at width 3: "aa" (a third character would make 4), a lone "W",
\* then "Wa"
C31_Witness ==
    /\ viewOut.tag = "pieces"
    /\ viewIn.word = <<"a", "a", "W", "W", "a">>
    /\ viewIn.maxWidth = 3
    /\ viewOut.pieces = <<<<"a", "a">>, <<"W">>, <<"W", "a">>>>

\* a wide glyph at width 1: a piece of one character that does not fit
C31_WitnessNoneFits ==
    /\ viewOut.tag = "pieces"
    /\ viewIn.maxWidth = 1
    /\ viewIn.word = <<"W", "a">>
    /\ viewOut.pieces = <<<<"W">>, <<"a">>>>

\* ------------------------------------------------------------------------
\* Properties of the logo cache
\* ------------------------------------------------------------------------

\* C32: over any sequence of frames at most one load is started per logo
\* URL; a frame drawn while the image has not loaded draws the name without
\* logo, a frame drawn once it has loaded draws the logo, and an image whose
\* load failed is not requested again.
C32_LogoLoadedOnceAndDrawnWhenLoaded ==
    /\ [](viewOut.tag = "logos" =>
             \A u \in LogoUrls : viewOut.loads[u] <= 1)
    /\ [][(viewOut.tag = "logos" /\ viewOut'.frames = viewOut.frames + 1) =>
             /\ \A n \in viewOut'.names :
                   n \in viewOut'.drawn <=>
                      /\ GetLogoUrl(n) # NoUrl
                      /\ viewOut.cache[GetLogoUrl(n)] = "loaded"
             /\ \A u \in LogoUrls :
                   viewOut.cache[u] = "failed" =>
                      /\ viewOut'.cache[u] = "failed"
                      /\ viewOut'.loads[u] = viewOut.loads[u]]_vars

\* the fourth frame draws two names that share a loaded logo and one whose
\* logo failed to load: one load each, the shared logo drawn twice
C32_Witness ==
    /\ viewOut.tag = "logos"
    /\ viewOut.frames = 4
    /\ viewOut.names = {"Opus", "Sonnet", "GPT"}
    /\ viewOut.drawn = {"Opus", "Sonnet"}
    /\ viewOut.cache["openai.svg"] = "failed"
    /\ viewOut.loads = [u \in LogoUrls |-> 1]

\* ------------------------------------------------------------------------
\* Properties of the round archive
\* ------------------------------------------------------------------------

RECURSIVE PagesJoined(_, _, _)
\* the rounds of pages p, p + 1, .. up to the last page, one after another
PagesJoined(rows, p, limit) ==
    IF p > CeilDiv(Len(rows), limit) THEN <<>>
    ELSE GetRoundsOf(rows, p, limit).rounds \o PagesJoined(rows, p + 1, limit)

Reversed(s) == [i \in 1..Len(s) |-> s[Len(s) + 1 - i]]

\* C33: saveRound leaves the archived rows and their order as they are and
\* adds one; on an archive of N rounds, the pages 1..ceil(N/limit) of
\* getRounds hold at most limit rounds each and, one after another, are the
\* saved rounds from newest to oldest, each once, and every call reports
\* total = N and totalPages = ceil(N/limit).
C33_AppendOnlyAndPagesPartition ==
    /\ [][(viewOut.tag = "rounds" /\ viewOut'.rows # viewOut.rows) =>
             /\ Len(viewOut'.rows) = Len(viewOut.rows) + 1
             /\ SubSeq(viewOut'.rows, 1, Len(viewOut.rows)) = viewOut.rows]_vars
    /\ [](viewOut.tag = "rounds" =>
             \A limit \in 1..MaxLimit :
                LET N == Len(viewOut.given)
                    last == CeilDiv(N, limit)
                IN  /\ PagesJoined(viewOut.rows, 1, limit)
                          = Reversed(viewOut.given)
                    /\ \A p \in 1..last :
                          LET r == GetRoundsOf(viewOut.rows, p, limit)
                          IN  /\ Len(r.rounds) <= limit
                              /\ r.total = N
                              /\ r.totalPages = last
                              /\ last * limit >= N
                              /\ (last - 1) * limit < N)
    /\ [](viewOut.tag = "rounds" /\ viewOut.result # NoResult =>
             viewOut.result = GetRoundsOf(viewOut.rows, viewOut.result.page,
                                          viewOut.result.limit))

\* the second page of three rounds in pages of two: the oldest round alone
C33_Witness ==
    /\ viewOut.tag = "rounds"
    /\ viewOut.given = <<[num |-> 1, prompt |-> "p"],
                         [num |-> 2, prompt |-> Absent],
                         [num |-> 2, prompt |-> "p"]>>
    /\ viewOut.result.page = 2
    /\ viewOut.result.limit = 2
    /\ viewOut.result.rounds = <<[num |-> 1, prompt |-> "p"]>>
    /\ viewOut.result.total = 3
    /\ viewOut.result.totalPages = 2

\* ------------------------------------------------------------------------
\* Properties of the state-sync connection
\* ------------------------------------------------------------------------

\* C34: at most one socket is connecting or open; while there is one, no
\* reconnect timer is pending; and connected is true only while the socket
\* held in ws is open.
C34_OneSocketNoTimerFlagTracksOpen ==
    /\ Cardinality(LiveSockets) <= 1
    /\ LiveSockets # {} => timers = {}
    /\ LiveSockets \subseteq {ws}
    /\ connected => sockets[ws] = "open"

\* the second socket is open after the first one was lost: no timer is
\* left and the flag is set again
C34_Witness ==
    /\ sockets[1] = "closed"
    /\ sockets[2] = "open"
    /\ ws = 2
    /\ connected
    /\ timers = {}

\* between the loss of the first socket and its successor: flag cleared,
\* one timer pending
C34_WitnessBetween ==
    /\ sockets[1] = "closed"
    /\ LiveSockets = {}
    /\ ~connected
    /\ timers # {}

\* ------------------------------------------------------------------------
\* Properties of textLines on texts that fit
\* ------------------------------------------------------------------------

RECURSIVE JoinedBySpaces(_)
\* strings joined by single spaces
JoinedBySpaces(strings) ==
    IF strings = <<>> THEN <<>>
    ELSE IF Len(strings) = 1 THEN strings[1]
    ELSE strings[1] \o <<" ">> \o JoinedBySpaces(Tail(strings))

RECURSIVE GreedyLineCount(_, _, _, _)
\* the number of lines that greedy packing of whole words needs: a word
\* joins the line when it fits there after a space and opens a line otherwise
GreedyLineCount(words, w, width, maxWidth) ==
    IF w > Len(words) THEN (IF width = 0 THEN 0 ELSE 1)
    ELSE LET m == Measure(words[w])
         IN  IF width = 0
             THEN GreedyLineCount(words, w + 1, m, maxWidth)
             ELSE IF width + 1 + m <= maxWidth
             THEN GreedyLineCount(words, w + 1, width + 1 + m, maxWidth)
             ELSE 1 + GreedyLineCount(words, w + 1, m, maxWidth)

TextWords == SplitWords(viewIn.text, <<>>)

\* every word fits a line, and greedy packing needs at most maxLines lines
FitsGreedily ==
    /\ \A w \in 1..Len(TextWords) : Measure(TextWords[w]) <= viewIn.maxWidth
    /\ GreedyLineCount(TextWords, 1, 0, viewIn.maxWidth) <= viewIn.maxLines

\* C35: when the words of the text, packed greedily into lines of width
\* maxWidth, need at most maxLines lines, the returned lines joined by
\* spaces are the words of the text joined by spaces: no word is dropped.
C35_NoWordDroppedWhenTextFits ==
    (viewOut.tag = "lines" /\ FitsGreedily) =>
        JoinedBySpaces(viewOut.lines) = JoinedBySpaces(TextWords)

\* ------------------------------------------------------------------------
\* Properties of the chunk relay
\* ------------------------------------------------------------------------

\* C36: the chunks written to the encoder's input all come from one capture
\* connection.
C36_SingleCaptureSource ==
    viewOut.tag = "relayed" =>
        Cardinality({viewOut.written[i] : i \in 1..Len(viewOut.written)}) <= 1

\* ------------------------------------------------------------------------
\* Properties of the process exit during a shutdown
\* ------------------------------------------------------------------------

\* C37: once shutdown has been triggered, the process has not exited unless
\* every teardown step that applies has been attempted.
C37_NoExitBeforeTeardownAttempted ==
    (proc = "exited" /\ shuttingDown) => Len(sdLog) = TeardownLength

\* ------------------------------------------------------------------------
\* Properties of the history view
\* ------------------------------------------------------------------------

C38_OneFetchAtATime ==
    viewOut.tag = "history" =>
        /\ Cardinality(viewOut.pending) <= 1
        /\ viewOut.pending # {} => ~ButtonsShown(viewOut)

====
